---- MODULE Spec2Model ----
(***************************************************************************)
(* State-machine model of the RevBot memory server (RevBotMemoryServer,    *)
(* src/README-HUMAN.md lines 716-2399): the in-memory RevBotData graph,    *)
(* its JSON file, the auto-save timer and the service lifecycle rules,     *)
(* and of the revenue counters of the QR generator service                 *)
(* (QRGeneratorService, src/services/qr-generator/src/server.ts), a        *)
(* separate process whose amounts are in cents.                            *)
(*                                                                         *)
(* Abstractions (values, not behaviour):                                   *)
(*  - money is in whole dollars; confidence scores are in hundredths       *)
(*    (0.9 is 90), so that all arithmetic is on integers;                  *)
(*  - time is counted in timer periods of TimeUnitMs milliseconds and a    *)
(*    local day lasts DayLen periods;                                      *)
(*  - a uuid is the position at which the record was created, unique       *)
(*    within one RevBotData graph; a service's name is its id, so the      *)
(*    `context' text of a lifecycle Decision, which names the service, is  *)
(*    kept as that id;                                                     *)
(*  - record fields that no modelled rule reads (names, types, metrics,    *)
(*    customer counts, created_at/updated_at, the id, timestamp and        *)
(*    reasoning of a Decision, the timestamp of a Blocker) are left out,   *)
(*    and so is the collection that no operation touches (customers);     *)
(*  - a text is the set of the words in it.                                *)
(***************************************************************************)
EXTENDS Integers, Sequences, FiniteSets, TLC

\* ------------------------------------------------------------------ bounds
MaxServices == 1
MaxTransactions == 2
MaxDecisions == 2
MaxStarts == 2
DayLen == 4
StartTime == 3
MaxBlockers == 2
MaxTurns == 2
Watch == 6
MaxSnapshots == 2
MaxOpportunities == 2
MaxRecords == 4
MaxRequests == 3

\* ------------------------------------------------------- program constants
TimeUnitMs == 10000
IdleThresholdMs == 30000
DefaultKillThreshold == 0 - 10
ScaleThreshold == 50
KillConfidence == 90
ScaleConfidence == 70
DefaultConfidence == 50
AuxConfidence == 80
ScaleMultiplier == 2
PRICE_PER_QR == 5
MAX_DAILY_GENERATIONS == 10000
MaxBatchSize == 100

\* --------------------------------------------------------- input alphabets
\* undefined: an integer outside every value range for numeric properties,
\* a string outside every enumeration for string properties
Undefined == 0 - 9999
UndefinedStr == "undefined"
\* NaN or an infinity; the JSON value null read back as a number; a number
\* so large that adding it to itself overflows to Infinity
NonFinite == 0 - 9998
Null == 0 - 9997
Huge == 9000
UnknownId == 0
Revenues == {Undefined, 5, 60, 80}
Costs == {Undefined, 10, 20}
Amounts == {5, 55}
WriteOutcomes == BOOLEAN
\* amounts of payment events when the caller may leave the amount out or
\* report very large payments
LooseAmounts == {5, Undefined, Huge}
Severities == {UndefinedStr, "high"}
\* argument resolution_summary of resolve_blocker
Resolution == "fixed"
\* arguments of log_decision; a confidence is in hundredths
Outcomes == {UndefinedStr, "approved"}
Impacts == {Undefined, 600}
Risks == {UndefinedStr, "high"}
Confidences == {Undefined, 50, 150, 0 - 20}
\* arguments of log_conversation_turn: the text of user_input and
\* ai_response as the set of its words, the optional context_type,
\* extracted_entities (a sequence of none or one) and importance_score
Words == {"error", "decided", "choose", "plan"}
Texts == SUBSET Words
ContextTypes == {UndefinedStr, "planning"}
GivenEntities ==
  {<<>>,
   <<[tasks_mentioned |-> <<>>,
      technologies_discussed |-> <<>>,
      decisions_made |-> <<"ship it">>,
      blockers_identified |-> <<>>]>>}
Scores == {Undefined, 500}

\* texts that touch the keyword families of inferContextType, and texts
\* that touch the terms of calculateImportanceScore
ClassWords == {"plan", "build", "error", "decided"}
ImportanceWords == {"urgent", "payment", "approved", "error", "done"}

\* argument max_conversation_turns of get_full_session_context
MaxTurnCounts == {Undefined, 0, 1, 2}

\* arguments of save_business_state (session_summary), of
\* record_market_opportunity (profit_potential), of get_market_opportunities
\* (status, limit), of get_all_services (status_filter) and of
\* get_revenue_analytics (timeframe_days)
Summaries == {"alpha", "beta"}
Profits == {Undefined, 10, 100}
StatusArgs == {UndefinedStr, "discovered"}
Limits == {Undefined, 1}
StatusFilters == {UndefinedStr, "active"}
Timeframes == {Undefined, 0, 1}

\* arguments kill_threshold and scale_threshold of a register_service
\* whose caller configures the lifecycle rules of the service
AskedKillThreshold == 0 - 30
AskedScaleThreshold == 20

\* daily revenues reported for a service that does well
HighRevenues == {80, 300}

\* what one request to the QR generator asks for: a code that is generated
\* ("ok"), a body that validateRequest rejects ("invalid"), or a valid body
\* whose text the QRCode library cannot encode ("fails")
Items == {"ok", "invalid", "fails"}
\* a batch of one request more than a batch may have
Oversize == [i \in 1..(MaxBatchSize + 1) |-> "ok"]
\* the `requests' arrays of batch calls; a body whose `requests' is not an
\* array is answered like the empty array
Batches ==
  {<<>>, <<"ok">>, <<"invalid">>, <<"ok", "ok">>, <<"invalid", "ok">>,
   <<"ok", "fails">>, Oversize}
\* the codes generated today when the QR service is first observed: none,
\* or two short of the daily limit
QRStartCounts == {0, MAX_DAILY_GENERATIONS - 2}

VARIABLES
  data,         \* this.data: the RevBotData graph held in memory
  disk,         \* content of data/revbot-data.json
  lastAutoSave, \* this.lastAutoSave
  now,          \* Date.now(), in timer periods
  proc,         \* "running" or "down" (process and its interval timer)
  sessions,     \* number of session uuids drawn so far
  last,         \* the step just taken: [op, sid, status], status "ok" or
                \* "error" (the handler threw)
  reply,        \* what the step just taken returned to its caller, for
                \* the operations whose result is a listing or a report
  qr            \* the QR generator service: its three counters and the
                \* requests whose handlers are suspended at an await

vars == <<data, disk, lastAutoSave, now, proc, sessions, last, reply, qr>>

\* ------------------------------------------------------------ data values
\* interface RevBotData; kind tells a store document from other JSON values
EmptyData(sid, t) ==
  [kind |-> "store",
   services |-> <<>>,
   transactions |-> <<>>,
   decisions |-> <<>>,
   conversation_turns |-> <<>>,
   blockers |-> <<>>,
   business_states |-> <<>>,
   market_opportunities |-> <<>>,
   technical_discoveries |-> <<>>,
   progress_milestones |-> <<>>,
   session_metadata |-> [current_session_id |-> sid,
                         session_start |-> t,
                         last_activity |-> t,
                         auto_save_enabled |-> TRUE]]

\* a parsed JSON value that is not a RevBotData document: "object" stands
\* for {} / [] / a number / a string (property reads give undefined),
\* "null" for the JSON value null (property reads throw)
NonStoreDoc(k) ==
  [kind |-> k,
   services |-> <<>>,
   transactions |-> <<>>,
   decisions |-> <<>>,
   conversation_turns |-> <<>>,
   blockers |-> <<>>,
   business_states |-> <<>>,
   market_opportunities |-> <<>>,
   technical_discoveries |-> <<>>,
   progress_milestones |-> <<>>,
   session_metadata |-> [current_session_id |-> 0,
                         session_start |-> 0,
                         last_activity |-> 0,
                         auto_save_enabled |-> FALSE]]

IsStore(d) == d.kind = "store"

\* file states: no file, a file that cannot be read or parsed, JSON text
NoFile == [kind |-> "missing", doc |-> NonStoreDoc("null")]
BadFile(k) == [kind |-> k, doc |-> NonStoreDoc("null")]

\* JSON.stringify of a number: NaN and the infinities are written as null
JsonNumber(x) == IF x = NonFinite THEN Null ELSE x

\* the value that the text JSON.stringify(this.data, null, 2) denotes:
\* strings, finite numbers, booleans, arrays and objects are represented
\* exactly, an undefined property is dropped and reads back as undefined,
\* a computed number (a service's daily_revenue, a snapshot's
\* total_revenue) goes through JsonNumber
ToJson(d) ==
  IF d.kind # "store" THEN d
  ELSE IF /\ \A i \in DOMAIN d.services :
               d.services[i].daily_revenue # NonFinite
          /\ \A i \in DOMAIN d.business_states :
               d.business_states[i].total_revenue # NonFinite
       THEN d
  ELSE [d EXCEPT !.services =
          [i \in DOMAIN @ |->
             [@[i] EXCEPT !.daily_revenue = JsonNumber(@)]],
                 !.business_states =
          [i \in DOMAIN @ |->
             [@[i] EXCEPT !.total_revenue = JsonNumber(@)]]]

Stringify(d) == [kind |-> "json", doc |-> ToJson(d)]
Parse(f) == f.doc

\* new Date().setHours(0, 0, 0, 0)
TodayStart(t) == (t \div DayLen) * DayLen

\* sum + t.amount on doubles: undefined and NaN give NaN, two huge numbers
\* overflow to Infinity, a huge number absorbs a small one
Plus(a, b) ==
  IF a \in {Undefined, NonFinite} \/ b \in {Undefined, NonFinite}
  THEN NonFinite
  ELSE IF a = Huge /\ b = Huge THEN NonFinite
  ELSE IF a = Huge \/ b = Huge THEN Huge
  ELSE a + b

\* reduce((sum, t) => sum + t.amount, 0)
RECURSIVE SumFrom(_, _)
SumFrom(acc, s) ==
  IF s = <<>> THEN acc ELSE SumFrom(Plus(acc, Head(s).amount), Tail(s))

SumAmounts(s) == SumFrom(0, s)

\* services.findIndex(s => s.id === id); 0 stands for -1
FindIndex(svcs, id) ==
  IF \E i \in 1..Len(svcs) : svcs[i].id = id
  THEN CHOOSE i \in 1..Len(svcs) :
         svcs[i].id = id /\ \A j \in 1..(i - 1) : svcs[j].id # id
  ELSE 0

\* ------------------------------------------------------------- durability
\* the part of the server that a handler threads through its saveData calls
Mach(d, f, las) == [data |-> d, disk |-> f, lastAutoSave |-> las]

SaveData_Truncates(m, t, ok) ==
  IF ~IsStore(m.data) THEN m
  ELSE LET d == [m.data EXCEPT !.session_metadata.last_activity = t]
       IN  IF ok THEN Mach(d, Stringify(d), t)
                 ELSE Mach(d, BadFile("unparseable"), m.lastAutoSave)

SaveData_Throttled(m, t, ok) ==
  IF ~IsStore(m.data) THEN m
  ELSE LET d == [m.data EXCEPT !.session_metadata.last_activity = t]
       IN  IF ok /\ t > m.lastAutoSave THEN Mach(d, Stringify(d), t)
                                       ELSE Mach(d, m.disk, m.lastAutoSave)

\* saveData(): stamps last_activity, writes the whole graph, records the
\* save time; an exception (a failed write, or no session_metadata to
\* stamp) is caught and logged. A failed write is one that fails before
\* the file is touched (it cannot be opened for writing).
SaveData(m, t, ok) ==
  IF ~IsStore(m.data) THEN m
  ELSE LET d == [m.data EXCEPT !.session_metadata.last_activity = t]
       IN  IF ok THEN Mach(d, Stringify(d), t)
                 ELSE Mach(d, m.disk, m.lastAutoSave)

\* loadData(), run by the constructor
LoadData(f, sid, t, ok) ==
  IF f.kind = "json" THEN Mach(Parse(f), f, t)
  ELSE IF f.kind = "missing"
       THEN SaveData(Mach(EmptyData(sid, t), f, t), t, ok)
       ELSE Mach(EmptyData(sid, t), f, t)

\* the QR generator service after n codes were generated on its first day
\* and with no request in flight
QRService(n) ==
  [dailyRevenue |-> n * PRICE_PER_QR,
   dailyGenerations |-> n,
   totalGenerations |-> n,
   flight |-> <<>>]

Commit(m) ==
  \E v \in {m} :
    /\ data' = v.data
    /\ disk' = v.disk
    /\ lastAutoSave' = v.lastAutoSave

Cur == Mach(data, disk, lastAutoSave)

\* the result of a step that is not a listing or a report
NoReply == [kind |-> "none"]

Throws_AndSaves(op, sid) ==
  /\ last' = [op |-> op, sid |-> sid, status |-> "error"]
  /\ reply' = NoReply
  /\ qr' = qr
  /\ Commit(SaveData(Mach(data, disk, lastAutoSave), now, TRUE))
  /\ UNCHANGED <<now, proc, sessions>>

\* the CallToolRequestSchema handler turns any exception into an McpError
Throws(op, sid) ==
  /\ last' = [op |-> op, sid |-> sid, status |-> "error"]
  /\ reply' = NoReply
  /\ UNCHANGED <<data, disk, lastAutoSave, now, proc, sessions, qr>>

\* a tool call that returns the content r
Replies(op, sid, r) ==
  /\ last' = [op |-> op, sid |-> sid, status |-> "ok"]
  /\ reply' = r
  /\ qr' = qr

Returns(op, sid) == Replies(op, sid, NoReply)

\* a step that is not a tool call
Did(op) ==
  /\ last' = [op |-> op, sid |-> UnknownId, status |-> "ok"]
  /\ reply' = NoReply
  /\ qr' = qr

\* ------------------------------------------------------------- operations
\* the service ids a caller can name: those register_service has returned
\* (a uuid cannot be named before it is drawn) and one that names no service
Registered == {data.services[i].id : i \in 1..Len(data.services)}
ServiceIds == {UnknownId} \cup Registered
IdSpace == {UnknownId} \cup (1..MaxServices)

\* the number of records in the collections of graph d
Records(d) ==
  Len(d.services) + Len(d.transactions) + Len(d.decisions)
    + Len(d.conversation_turns) + Len(d.blockers) + Len(d.business_states)
    + Len(d.market_opportunities) + Len(d.technical_discoveries)
    + Len(d.progress_milestones)

\* logDecisionInternal(decisionInput)
LogDecisionInternal(m, t, inp, ok) ==
  LET rec == [decision_type |-> inp.decision_type,
              context |-> inp.context,
              outcome |-> inp.outcome,
              revenue_impact |-> inp.revenue_impact,
              risk_level |-> inp.risk_level,
              confidence_score |-> inp.confidence_score,
              impact_metrics |->
                [revenue_impact |->
                   IF inp.revenue_impact \in {Undefined, 0}
                   THEN 0 ELSE inp.revenue_impact,
                 risk_level |->
                   IF inp.risk_level = UndefinedStr
                   THEN "medium" ELSE inp.risk_level,
                 confidence_score |->
                   IF inp.confidence_score \in {Undefined, 0}
                   THEN DefaultConfidence ELSE inp.confidence_score]]
      d == [m.data EXCEPT !.decisions = Append(@, rec)]
  IN  SaveData([m EXCEPT !.data = d], t, ok)

\* logDecision(args)
LogDecision(outcome, impact, risk, conf, ok) ==
  /\ proc = "running"
  /\ IF ~IsStore(data) THEN Throws("log_decision", UnknownId)
     ELSE /\ Len(data.decisions) < MaxDecisions
          /\ Commit(LogDecisionInternal(Cur, now,
                 [decision_type |-> "manual",
                  context |-> UnknownId,
                  outcome |-> IF outcome = UndefinedStr
                              THEN "pending" ELSE outcome,
                  revenue_impact |-> impact,
                  risk_level |-> risk,
                  confidence_score |-> conf], ok))
          /\ Replies("log_decision", UnknownId,
                [kind |-> "decision",
                 outcome |-> IF outcome = UndefinedStr
                             THEN "pending" ELSE outcome])
          /\ UNCHANGED <<now, proc, sessions>>

\* registerService(args)
RegisterService(auto, ok) ==
  /\ proc = "running"
  /\ IF ~IsStore(data) THEN Throws("register_service", UnknownId)
     ELSE /\ Len(data.services) < MaxServices
          /\ LET svc == [id |-> Len(data.services) + 1,
                         status |-> "active",
                         daily_revenue |-> 0,
                         daily_costs |-> 0,
                         auto_scale |-> auto,
                         kill_threshold |-> DefaultKillThreshold]
                 d == [data EXCEPT !.services = Append(@, svc)]
             IN  Commit(SaveData([Cur EXCEPT !.data = d], now, ok))
          /\ Returns("register_service", Len(data.services) + 1)
          /\ UNCHANGED <<now, proc, sessions>>

KillRule_IgnoresCosts(svc) ==
  svc.daily_revenue < svc.kill_threshold

KillRule_AtOrBelow(svc) ==
  svc.daily_revenue - svc.daily_costs <= svc.kill_threshold

\* the two guards of the "Auto-scaling logic" block
KillRule(svc) ==
  svc.daily_revenue - svc.daily_costs < svc.kill_threshold

ScaleRule_AnyStatus(svc) ==
  svc.daily_revenue - svc.daily_costs > ScaleThreshold

ScaleRule_NotKilled(svc) ==
  /\ svc.daily_revenue - svc.daily_costs > ScaleThreshold
  /\ svc.status # "killed"

ScaleRule(svc) ==
  /\ svc.daily_revenue - svc.daily_costs > ScaleThreshold
  /\ svc.status = "active"

KillDecision(svc) ==
  [decision_type |-> "auto_kill_service",
   context |-> svc.id,
   outcome |-> "auto_approved",
   revenue_impact |-> svc.daily_revenue - svc.daily_costs,
   risk_level |-> "low",
   confidence_score |-> KillConfidence]

ScaleDecision_NoMultiplier(svc) ==
  [decision_type |-> "auto_scale_service",
   context |-> svc.id,
   outcome |-> "auto_approved",
   revenue_impact |-> svc.daily_revenue - svc.daily_costs,
   risk_level |-> "medium",
   confidence_score |-> ScaleConfidence]

ScaleDecision(svc) ==
  [decision_type |-> "auto_scale_service",
   context |-> svc.id,
   outcome |-> "auto_approved",
   revenue_impact |-> (svc.daily_revenue - svc.daily_costs) * ScaleMultiplier,
   risk_level |-> "medium",
   confidence_score |-> ScaleConfidence]

\* the "Auto-scaling logic" block of updateServicePerformance, applied to
\* the service at index i after its counters were written
AutoScaling(m, i, t, ok) ==
  LET svc == m.data.services[i]
      setStatus(st) == [m EXCEPT !.data.services[i].status = st]
  IN  IF ~svc.auto_scale THEN m
      ELSE IF KillRule(svc)
           THEN LogDecisionInternal(setStatus("killed"), t,
                                    KillDecision(svc), ok)
      ELSE IF ScaleRule(svc)
           THEN LogDecisionInternal(setStatus("scaling"), t,
                                    ScaleDecision(svc), ok)
      ELSE m

WriteCounters_AndThreshold(svc, rev, costs) ==
  [svc EXCEPT !.daily_revenue = IF rev = Undefined THEN @ ELSE rev,
              !.daily_costs = IF costs = Undefined THEN @ ELSE costs,
              !.kill_threshold = IF costs = Undefined THEN @ ELSE 0 - costs]

\* the counter assignments of updateServicePerformance
WriteCounters(svc, rev, costs) ==
  [svc EXCEPT !.daily_revenue = IF rev = Undefined THEN @ ELSE rev,
              !.daily_costs = IF costs = Undefined THEN @ ELSE costs]

\* updateServicePerformance(args)
UpdateServicePerformance(sid, rev, costs, ok1, ok2) ==
  /\ proc = "running"
  /\ sid \in ServiceIds
  /\ IF ~IsStore(data) \/ FindIndex(data.services, sid) = 0
     THEN Throws("update_service_performance", sid)
     ELSE LET i == FindIndex(data.services, sid)
              m1 == [Cur EXCEPT !.data.services[i] =
                       WriteCounters(@, rev, costs)]
              m2 == AutoScaling(m1, i, now, ok1)
          IN  \E m3 \in {m2} :
                /\ Len(m3.data.decisions) <= MaxDecisions
                /\ Commit(SaveData(m3, now, ok2))
                /\ Returns("update_service_performance", sid)
                /\ UNCHANGED <<now, proc, sessions>>

\* the blocker ids a caller can name: those log_blocker has returned and
\* one that names no blocker
Logged == {data.blockers[i].id : i \in 1..Len(data.blockers)}
BlockerIds == {UnknownId} \cup Logged
BlockerIdSpace == {UnknownId} \cup (1..MaxBlockers)

\* logBlocker(args), on the machine m
LogBlockerOn(m, t, sev, ok) ==
  LET blocker == [id |-> Len(m.data.blockers) + 1,
                  severity |-> IF sev = UndefinedStr THEN "medium" ELSE sev,
                  status |-> "identified",
                  resolution_summary |-> UndefinedStr]
  IN  SaveData([m EXCEPT !.data.blockers = Append(@, blocker)], t, ok)

\* logBlocker(args) as a tool call
LogBlocker(sev, ok) ==
  /\ proc = "running"
  /\ IF ~IsStore(data) THEN Throws("log_blocker", UnknownId)
     ELSE /\ Len(data.blockers) < MaxBlockers
          /\ Commit(LogBlockerOn(Cur, now, sev, ok))
          /\ Returns("log_blocker", Len(data.blockers) + 1)
          /\ UNCHANGED <<now, proc, sessions>>

\* blockers.find(b => b.id === id); 0 stands for undefined
FindBlocker(bs, id) ==
  IF \E i \in 1..Len(bs) : bs[i].id = id
  THEN CHOOSE i \in 1..Len(bs) :
         bs[i].id = id /\ \A j \in 1..(i - 1) : bs[j].id # id
  ELSE 0

ResolveBlocker_Toggles(bid, summary, ok) ==
  /\ proc = "running"
  /\ bid \in BlockerIds
  /\ IF ~IsStore(data) \/ FindBlocker(data.blockers, bid) = 0
     THEN Throws("resolve_blocker", bid)
     ELSE /\ LET i == FindBlocker(data.blockers, bid)
                 d == [data EXCEPT !.blockers[i].status =
                         IF @ = "resolved" THEN "identified" ELSE "resolved",
                                   !.blockers[i].resolution_summary = summary]
             IN  Commit(SaveData([Cur EXCEPT !.data = d], now, ok))
          /\ Returns("resolve_blocker", bid)
          /\ UNCHANGED <<now, proc, sessions>>

\* resolveBlocker(args)
ResolveBlocker(bid, summary, ok) ==
  /\ proc = "running"
  /\ bid \in BlockerIds
  /\ IF ~IsStore(data) \/ FindBlocker(data.blockers, bid) = 0
     THEN Throws("resolve_blocker", bid)
     ELSE /\ LET i == FindBlocker(data.blockers, bid)
                 d == [data EXCEPT !.blockers[i].status = "resolved",
                                   !.blockers[i].resolution_summary = summary]
             IN  Commit(SaveData([Cur EXCEPT !.data = d], now, ok))
          /\ Returns("resolve_blocker", bid)
          /\ UNCHANGED <<now, proc, sessions>>

\* keyword lists of extractEntitiesFromConversation, in source order
TaskKeywords ==
  <<"implement", "build", "create", "deploy", "setup", "configure", "test",
    "fix">>
TechKeywords ==
  <<"stripe", "mcp", "server", "api", "webhook", "payment", "revbot",
    "nodejs", "typescript">>
DecisionKeywords ==
  <<"decided", "choose", "selected", "approved", "skip", "use", "go with">>
BlockerKeywords ==
  <<"error", "failed", "blocked", "issue", "problem", "cannot", "unable",
    "stuck">>

\* the keywords of the code that are proper substrings of a word of a text
SubstringPairs == {<<"decide", "decided">>, <<"approve", "approved">>}

\* combined.includes(kw), the text being lower-cased words
Includes(text, kw) ==
  \E w \in text : kw = w \/ <<kw, w>> \in SubstringPairs

\* extractKeywords(text, keywords)
ExtractKeywords(text, keywords) ==
  SelectSeq(keywords, LAMBDA kw : Includes(text, kw))

\* extractEntitiesFromConversation(userInput, aiResponse)
ExtractEntities(text) ==
  [tasks_mentioned |-> ExtractKeywords(text, TaskKeywords),
   technologies_discussed |-> ExtractKeywords(text, TechKeywords),
   decisions_made |-> ExtractKeywords(text, DecisionKeywords),
   blockers_identified |-> ExtractKeywords(text, BlockerKeywords)]

InferContextType_DecisionFirst(text) ==
  IF \E kw \in {"plan", "strategy", "roadmap"} : Includes(text, kw)
  THEN "planning"
  ELSE IF \E kw \in {"build", "implement", "deploy"} : Includes(text, kw)
  THEN "implementation"
  ELSE IF \E kw \in {"decide", "choose", "approve"} : Includes(text, kw)
  THEN "decision"
  ELSE IF \E kw \in {"error", "debug", "fix"} : Includes(text, kw)
  THEN "debugging"
  ELSE "analysis"

\* inferContextType(userInput, aiResponse)
InferContextType(text) ==
  IF \E kw \in {"plan", "strategy", "roadmap"} : Includes(text, kw)
  THEN "planning"
  ELSE IF \E kw \in {"build", "implement", "deploy"} : Includes(text, kw)
  THEN "implementation"
  ELSE IF \E kw \in {"error", "debug", "fix"} : Includes(text, kw)
  THEN "debugging"
  ELSE IF \E kw \in {"decide", "choose", "approve"} : Includes(text, kw)
  THEN "decision"
  ELSE "analysis"

\* calculateImportanceScore(userInput, aiResponse), in hundredths
ImportanceScore(text) ==
  LET hit(kws) == IF \E kw \in kws : Includes(text, kw) THEN 1 ELSE 0
      score == 30 + 30 * hit({"critical", "urgent"})
                  + 20 * hit({"revenue", "payment", "money"})
                  + 20 * hit({"decision", "approve"})
                  + 20 * hit({"blocker", "error", "problem"})
                  + 10 * hit({"complete", "finished", "done"})
  IN  IF score < 100 THEN score ELSE 100

\* the Decision that autoCaptureContext logs for an extracted decision
AuxDecision ==
  [decision_type |-> "conversation_decision",
   context |-> UnknownId,
   outcome |-> "auto_approved",
   revenue_impact |-> Undefined,
   risk_level |-> UndefinedStr,
   confidence_score |-> AuxConfidence]

\* the 'decision_made' case of autoCaptureContext: one logDecisionInternal
\* for each of the n entries of extracted_entities.decisions_made
RECURSIVE CaptureDecisions(_, _, _, _)
CaptureDecisions(m, n, t, ok) ==
  IF n = 0 THEN m
  ELSE CaptureDecisions(LogDecisionInternal(m, t, AuxDecision, ok),
                        n - 1, t, ok)

\* the 'blocker_found' case of autoCaptureContext: one logBlocker for each
\* of the n entries of extracted_entities.blockers_identified
RECURSIVE CaptureBlockers(_, _, _, _)
CaptureBlockers(m, n, t, ok) ==
  IF n = 0 THEN m
  ELSE CaptureBlockers(LogBlockerOn(m, t, "medium", ok), n - 1, t, ok)

\* logTechnicalDiscovery(args), on the machine m; of a discovery its id
\* and timestamp are kept
LogTechnicalDiscoveryOn(m, t, ok) ==
  LET discovery == [id |-> Len(m.data.technical_discoveries) + 1,
                    timestamp |-> t]
  IN  SaveData([m EXCEPT !.data.technical_discoveries =
                  Append(@, discovery)], t, ok)

\* logTechnicalDiscovery(args) as a tool call
LogTechnicalDiscovery(ok) ==
  /\ proc = "running"
  /\ IF ~IsStore(data) THEN Throws("log_technical_discovery", UnknownId)
     ELSE /\ Records(data) < MaxRecords
          /\ Commit(LogTechnicalDiscoveryOn(Cur, now, ok))
          /\ Returns("log_technical_discovery",
                     Len(data.technical_discoveries) + 1)
          /\ UNCHANGED <<now, proc, sessions>>

\* logProgressMilestone(args); of a milestone its id and timestamp are kept
LogProgressMilestone(ok) ==
  /\ proc = "running"
  /\ IF ~IsStore(data) THEN Throws("log_progress_milestone", UnknownId)
     ELSE /\ Records(data) < MaxRecords
          /\ LET milestone == [id |-> Len(data.progress_milestones) + 1,
                               timestamp |-> now]
                 d == [data EXCEPT !.progress_milestones =
                         Append(@, milestone)]
             IN  Commit(SaveData([Cur EXCEPT !.data = d], now, ok))
          /\ Returns("log_progress_milestone",
                     Len(data.progress_milestones) + 1)
          /\ UNCHANGED <<now, proc, sessions>>

\* the 'technical_discovery' case of autoCaptureContext: one
\* logTechnicalDiscovery for each of the n entries of
\* extracted_entities.technologies_discussed
RECURSIVE CaptureDiscoveries(_, _, _, _)
CaptureDiscoveries(m, n, t, ok) ==
  IF n = 0 THEN m
  ELSE CaptureDiscoveries(LogTechnicalDiscoveryOn(m, t, ok), n - 1, t, ok)

\* autoCaptureContext(args)
AutoCaptureContext(m, trigger, turn, t, ok) ==
  CASE trigger = "decision_made" ->
         CaptureDecisions(m, Len(turn.extracted_entities.decisions_made),
                          t, ok)
    [] trigger = "blocker_found" ->
         CaptureBlockers(m, Len(turn.extracted_entities.blockers_identified),
                         t, ok)
    [] trigger = "technical_discovery" ->
         CaptureDiscoveries(m,
           Len(turn.extracted_entities.technologies_discussed), t, ok)
    [] OTHER -> m

\* logConversationTurn(args)
LogConversationTurn(text, ctype, given, score, ok1, ok2) ==
  /\ proc = "running"
  /\ IF ~IsStore(data) THEN Throws("log_conversation_turn", UnknownId)
     ELSE /\ Len(data.conversation_turns) < MaxTurns
          /\ LET turn ==
                   [id |-> Len(data.conversation_turns) + 1,
                    session_id |-> data.session_metadata.current_session_id,
                    timestamp |-> now,
                    text |-> text,
                    context_type |-> IF ctype = UndefinedStr
                                     THEN InferContextType(text) ELSE ctype,
                    extracted_entities |-> IF given = <<>>
                                           THEN ExtractEntities(text)
                                           ELSE given[1],
                    importance_score |-> IF score \in {Undefined, 0}
                                         THEN ImportanceScore(text)
                                         ELSE score]
                 m1 == SaveData([Cur EXCEPT !.data.conversation_turns =
                                   Append(@, turn)], now, ok1)
             IN  Commit(AutoCaptureContext(m1, "decision_made", turn,
                                           now, ok2))
          /\ Returns("log_conversation_turn", Len(data.conversation_turns) + 1)
          /\ UNCHANGED <<now, proc, sessions>>

TodayRevenue_AllDays(txns, sid, t) ==
  SumAmounts(SelectSeq(txns, LAMBDA x : x.service_id = sid))

\* the "Update daily revenue" computation of recordTransaction
TodayRevenue(txns, sid, t) ==
  SumAmounts(SelectSeq(txns,
    LAMBDA x : x.service_id = sid /\ x.timestamp >= TodayStart(t)))

\* recordTransaction(args)
RecordTransaction(sid, amount, ok1, ok2) ==
  /\ proc = "running"
  /\ sid \in ServiceIds
  /\ IF ~IsStore(data) THEN Throws("record_transaction", sid)
     ELSE /\ Len(data.transactions) < MaxTransactions
          /\ LET txn == [service_id |-> sid, amount |-> amount,
                         timestamp |-> now]
                 m1 == SaveData([Cur EXCEPT !.data.transactions =
                                   Append(@, txn)], now, ok1)
                 i == FindIndex(m1.data.services, sid)
                 m2 == IF i = 0 THEN m1
                       ELSE SaveData(
                              [m1 EXCEPT !.data.services[i].daily_revenue =
                                 TodayRevenue(m1.data.transactions, sid, now)],
                              now, ok2)
             IN  Commit(m2)
          /\ Returns("record_transaction", sid)
          /\ UNCHANGED <<now, proc, sessions>>

\* s.sort((a, b) => b[field] - a[field]) for a numeric field: descending,
\* and stable (elements with equal values keep their order)
SortDescBy(s, field) ==
  LET n == Len(s)
      rank(i) ==
        1 + Cardinality({j \in 1..n :
              \/ s[j][field] > s[i][field]
              \/ s[j][field] = s[i][field] /\ j < i})
  IN  [p \in 1..n |-> s[CHOOSE i \in 1..n : rank(i) = p]]

\* s.slice(0, n)
Slice(s, n) ==
  LET end == IF n < 0 THEN Len(s) + n ELSE n
  IN  SubSeq(s, 1, IF end > Len(s) THEN Len(s) ELSE end)

\* s.reverse()
Reverse(s) == [i \in 1..Len(s) |-> s[Len(s) + 1 - i]]

DefaultMaxTurns == 50

RecentTurns_NewestFirst(d, maxTurns) ==
  Slice(SortDescBy(SelectSeq(d.conversation_turns,
                     LAMBDA turn : turn.session_id
                        = d.session_metadata.current_session_id),
                   "timestamp"),
        IF maxTurns \in {Undefined, 0} THEN DefaultMaxTurns ELSE maxTurns)

\* the "Recent conversation history" block of getFullSessionContext
RecentTurns(d, maxTurns) ==
  Reverse(
    Slice(SortDescBy(SelectSeq(d.conversation_turns,
                       LAMBDA turn : turn.session_id
                          = d.session_metadata.current_session_id),
                     "timestamp"),
          IF maxTurns \in {Undefined, 0} THEN DefaultMaxTurns ELSE maxTurns))

\* the "Active blockers" block of getFullSessionContext; the order of the
\* listing (by timestamp) is left out
ActiveBlockers(d) ==
  {d.blockers[i].id : i \in {j \in 1..Len(d.blockers) :
                               d.blockers[j].status # "resolved"}}

\* getFullSessionContext(args) with every include flag left at its default;
\* the reply keeps the ids of the listed turns and blockers, and the
\* max_conversation_turns that was asked for. The listings of technical
\* discoveries and progress milestones are left out of the reply, but
\* their sorts work on the arrays of the graph itself.
GetFullSessionContext(maxTurns) ==
  /\ proc = "running"
  /\ IF ~IsStore(data) THEN Throws("get_full_session_context", UnknownId)
     ELSE /\ Replies("get_full_session_context", UnknownId,
                [kind |-> "context",
                 asked |-> maxTurns,
                 turns |-> LET r == RecentTurns(data, maxTurns)
                           IN  [i \in 1..Len(r) |-> r[i].id],
                 blockers |-> ActiveBlockers(data)])
          /\ data' = [data EXCEPT
                        !.technical_discoveries = SortDescBy(@, "timestamp"),
                        !.progress_milestones = SortDescBy(@, "timestamp")]
          /\ UNCHANGED <<disk, lastAutoSave, now, proc, sessions>>

\* saveBusinessState(args); the lists a snapshot carries and its constant
\* risk_metrics are left out
SaveBusinessState(summary, ok) ==
  /\ proc = "running"
  /\ IF ~IsStore(data) THEN Throws("save_business_state", UnknownId)
     ELSE /\ Len(data.business_states) < MaxSnapshots
          /\ LET businessState ==
                   [id |-> Len(data.business_states) + 1,
                    timestamp |-> now,
                    total_revenue |->
                      SumAmounts(SelectSeq(data.transactions,
                        LAMBDA x : x.timestamp >= TodayStart(now))),
                    active_services |->
                      Len(SelectSeq(data.services,
                        LAMBDA svc : svc.status = "active")),
                    session_summary |-> summary]
                 d == [data EXCEPT !.business_states =
                         Append(@, businessState)]
             IN  Commit(SaveData([Cur EXCEPT !.data = d], now, ok))
          /\ Returns("save_business_state", Len(data.business_states) + 1)
          /\ UNCHANGED <<now, proc, sessions>>

\* the orders in which services.sort((a, b) => b.updated_at - a.updated_at)
\* can leave the services: updated_at is left out of a service, so any
\* order stands for the one the time stamps give
Orders(s) ==
  {[i \in 1..Len(s) |-> s[p[i]]] : p \in Permutations(1..Len(s))}

\* getCurrentBusinessState(); both sorts work on the arrays of the graph
\* itself, and total_revenue.toFixed throws when the value read back from
\* the file is null
GetCurrentBusinessState ==
  /\ proc = "running"
  /\ IF ~IsStore(data) THEN Throws("get_current_business_state", UnknownId)
     ELSE LET sorted == SortDescBy(data.business_states, "timestamp")
          IN  /\ IF sorted = <<>>
                 THEN /\ Replies("get_current_business_state", UnknownId,
                                 [kind |-> "init"])
                      /\ data' = data
                 ELSE /\ \E order \in Orders(data.services) :
                           data' = [data EXCEPT !.business_states = sorted,
                                                !.services = order]
                      /\ IF sorted[1].total_revenue = Null
                         THEN /\ last' = [op |-> "get_current_business_state",
                                          sid |-> UnknownId,
                                          status |-> "error"]
                              /\ reply' = NoReply
                              /\ qr' = qr
                         ELSE Replies("get_current_business_state",
                                UnknownId,
                                [kind |-> "state",
                                 id |-> sorted[1].id,
                                 total_revenue |-> sorted[1].total_revenue,
                                 active_services |->
                                   sorted[1].active_services,
                                 session_summary |->
                                   sorted[1].session_summary])
              /\ UNCHANGED <<disk, lastAutoSave, now, proc, sessions>>

\* getAllServices(args): without a status_filter the sort works on the
\* array of the graph itself; the reply keeps the ids in listing order
GetAllServices(filter) ==
  /\ proc = "running"
  /\ IF ~IsStore(data) THEN Throws("get_all_services", UnknownId)
     ELSE LET services ==
                 SortDescBy(IF filter = UndefinedStr THEN data.services
                            ELSE SelectSeq(data.services,
                                   LAMBDA svc : svc.status = filter),
                            "daily_revenue")
          IN  /\ data' = IF filter = UndefinedStr
                         THEN [data EXCEPT !.services = services]
                         ELSE data
              /\ Replies("get_all_services", UnknownId,
                   [kind |-> "services",
                    ids |-> [i \in 1..Len(services) |-> services[i].id]])
              /\ UNCHANGED <<disk, lastAutoSave, now, proc, sessions>>

\* getPendingDecisions(); a Decision is named by its position in the log,
\* and the order of the listing (by timestamp) is left out
GetPendingDecisions ==
  /\ proc = "running"
  /\ IF ~IsStore(data) THEN Throws("get_pending_decisions", UnknownId)
     ELSE /\ Replies("get_pending_decisions", UnknownId,
                [kind |-> "pending",
                 decisions |-> {i \in 1..Len(data.decisions) :
                                  data.decisions[i].outcome = "pending"}])
          /\ UNCHANGED <<data, disk, lastAutoSave, now, proc, sessions>>

\* the call just answered repeats the one answered in the step before
Repeats(op, kind, args) ==
  /\ last = [op |-> op, sid |-> UnknownId, status |-> "ok"]
  /\ reply.kind = kind
  /\ reply.args = args

\* a / b on doubles, kept as the fraction
Div(a, b) == [num |-> a, den |-> b]

DefaultTimeframeDays == 30

\* timeframeDays and cutoffTime of getRevenueAnalytics; a day is DayLen
\* periods
TimeframeDays(days) ==
  IF days \in {Undefined, 0} THEN DefaultTimeframeDays ELSE days

CutoffTime(t, days) == t - TimeframeDays(days) * DayLen

InWindow_After(x, t, days) == x.timestamp > CutoffTime(t, days)

InWindow(x, t, days) == x.timestamp >= CutoffTime(t, days)

\* the elements of a set of positions, in ascending order
AscSeq(S) ==
  [p \in 1..Cardinality(S) |->
     CHOOSE i \in S : Cardinality({j \in S : j < i}) = p - 1]

\* the Map serviceAnalytics of getRevenueAnalytics as the array of its
\* values: one entry for each service_id, in the order of first occurrence
ServiceAnalytics(txns) ==
  LET first == AscSeq({i \in 1..Len(txns) :
                         \A j \in 1..(i - 1) :
                           txns[j].service_id # txns[i].service_id})
  IN  [k \in 1..Len(first) |->
         LET own == SelectSeq(txns,
                      LAMBDA x : x.service_id = txns[first[k]].service_id)
         IN  [service_id |-> txns[first[k]].service_id,
              transaction_count |-> Len(own),
              total_revenue |-> SumAmounts(own)]]

\* the report of getRevenueAnalytics on graph d at time t; sid Undefined
\* stands for no service filter
RevenueAnalytics(d, t, days, sid) ==
  LET transactions ==
        SelectSeq(d.transactions,
          LAMBDA x : /\ InWindow(x, t, days)
                     /\ (sid = Undefined \/ x.service_id = sid))
      analytics == SortDescBy(ServiceAnalytics(transactions),
                              "total_revenue")
      totalRevenue == SumAmounts(transactions)
      totalTransactions == Len(transactions)
  IN  [total_revenue |-> totalRevenue,
       total_transactions |-> totalTransactions,
       avg_transaction |-> IF totalTransactions > 0
                           THEN Div(totalRevenue, totalTransactions)
                           ELSE Div(0, 1),
       daily_average |-> Div(totalRevenue, TimeframeDays(days)),
       by_service |->
         [k \in 1..Len(analytics) |->
            [service_id |-> analytics[k].service_id,
             transaction_count |-> analytics[k].transaction_count,
             total_revenue |-> analytics[k].total_revenue,
             avg_transaction |-> Div(analytics[k].total_revenue,
                                     analytics[k].transaction_count),
             daily_average |-> Div(analytics[k].total_revenue,
                                   TimeframeDays(days))]]]

\* getRevenueAnalytics(args)
GetRevenueAnalytics(days, sid) ==
  /\ proc = "running"
  /\ IF ~IsStore(data) THEN Throws("get_revenue_analytics", UnknownId)
     ELSE /\ Replies("get_revenue_analytics", UnknownId,
                [kind |-> "analytics",
                 args |-> <<days, sid>>,
                 repeat |-> Repeats("get_revenue_analytics", "analytics",
                                    <<days, sid>>),
                 report |-> RevenueAnalytics(data, now, days, sid)])
          /\ UNCHANGED <<data, disk, lastAutoSave, now, proc, sessions>>

\* reduce((sum, x) => sum + x, 0) over a sequence of finite amounts
RECURSIVE SumSeq(_)
SumSeq(s) == IF s = <<>> THEN 0 ELSE Head(s) + SumSeq(Tail(s))

CautionBelow == 10
StrongAbove == 100

\* the key metrics of getBusinessInsights and the first of its
\* recommendations (at most one of the three lines is written)
Insights(d) ==
  LET activeServices == SelectSeq(d.services,
                          LAMBDA svc : svc.status = "active")
      totalDailyCosts ==
        SumSeq([i \in 1..Len(activeServices) |->
                  activeServices[i].daily_costs])
      totalDailyRevenue ==
        SumSeq([i \in 1..Len(activeServices) |->
                  activeServices[i].daily_revenue])
      dailyProfit == totalDailyRevenue - totalDailyCosts
  IN  [daily_revenue |-> totalDailyRevenue,
       daily_costs |-> totalDailyCosts,
       daily_profit |-> dailyProfit,
       verdict |-> IF dailyProfit < 0 THEN "urgent"
                   ELSE IF dailyProfit < CautionBelow THEN "caution"
                   ELSE IF dailyProfit > StrongAbove THEN "strong"
                   ELSE "none"]

\* getBusinessInsights(args) with the focus area left at its default
GetBusinessInsights ==
  /\ proc = "running"
  /\ IF ~IsStore(data) THEN Throws("get_business_insights", UnknownId)
     ELSE /\ Replies("get_business_insights", UnknownId,
                [kind |-> "insights",
                 args |-> <<>>,
                 repeat |-> Repeats("get_business_insights", "insights",
                                    <<>>),
                 report |-> Insights(data)])
          /\ UNCHANGED <<data, disk, lastAutoSave, now, proc, sessions>>

\* recordMarketOpportunity(args)
RecordMarketOpportunity(profit, ok) ==
  /\ proc = "running"
  /\ IF ~IsStore(data) THEN Throws("record_market_opportunity", UnknownId)
     ELSE /\ Len(data.market_opportunities) < MaxOpportunities
          /\ LET opportunity ==
                   [id |-> Len(data.market_opportunities) + 1,
                    profit_potential |-> profit,
                    status |-> "discovered",
                    created_at |-> now]
                 d == [data EXCEPT !.market_opportunities =
                         Append(@, opportunity)]
             IN  Commit(SaveData([Cur EXCEPT !.data = d], now, ok))
          /\ Returns("record_market_opportunity",
                     Len(data.market_opportunities) + 1)
          /\ UNCHANGED <<now, proc, sessions>>

\* the comparator of getMarketOpportunities: negative when a goes first
CompareOpportunities(a, b) ==
  IF /\ a.profit_potential \notin {Undefined, 0}
     /\ b.profit_potential \notin {Undefined, 0}
  THEN b.profit_potential - a.profit_potential
  ELSE b.created_at - a.created_at

InsertOpportunity_BeforeEquals(sorted, x) ==
  LET stay == {k \in 1..Len(sorted) : CompareOpportunities(sorted[k], x) < 0}
      pos == IF stay = {} THEN 0
             ELSE CHOOSE k \in stay : \A j \in stay : j <= k
  IN  SubSeq(sorted, 1, pos) \o <<x>> \o SubSeq(sorted, pos + 1, Len(sorted))

\* one step of a stable insertion sort: x goes behind the last element
\* that the comparator does not put after it
InsertOpportunity(sorted, x) ==
  LET stay == {k \in 1..Len(sorted) : CompareOpportunities(sorted[k], x) <= 0}
      pos == IF stay = {} THEN 0
             ELSE CHOOSE k \in stay : \A j \in stay : j <= k
  IN  SubSeq(sorted, 1, pos) \o <<x>> \o SubSeq(sorted, pos + 1, Len(sorted))

\* opportunities.sort(comparator): a stable sort; every stable sort gives
\* this result when the comparator orders the elements consistently, and
\* for up to two elements in any case
RECURSIVE SortOpportunities(_)
SortOpportunities(s) ==
  IF s = <<>> THEN <<>>
  ELSE InsertOpportunity(SortOpportunities(SubSeq(s, 1, Len(s) - 1)),
                         s[Len(s)])

\* getMarketOpportunities(args): without a status the sort works on the
\* array of the graph itself; the reply keeps the ids in listing order
GetMarketOpportunities(status, limit) ==
  /\ proc = "running"
  /\ IF ~IsStore(data) THEN Throws("get_market_opportunities", UnknownId)
     ELSE LET opportunities ==
                 SortOpportunities(
                   IF status = UndefinedStr THEN data.market_opportunities
                   ELSE SelectSeq(data.market_opportunities,
                          LAMBDA o : o.status = status))
              listed == IF limit \in {Undefined, 0} THEN opportunities
                        ELSE Slice(opportunities, limit)
          IN  /\ data' = IF status = UndefinedStr
                         THEN [data EXCEPT !.market_opportunities =
                                 opportunities]
                         ELSE data
              /\ Replies("get_market_opportunities", UnknownId,
                   [kind |-> "opportunities",
                    args |-> <<status, limit>>,
                    repeat |-> Repeats("get_market_opportunities",
                                       "opportunities", <<status, limit>>),
                    report |-> [i \in 1..Len(listed) |-> listed[i].id]])
              /\ UNCHANGED <<disk, lastAutoSave, now, proc, sessions>>

\* registerService(args) for a caller that passes a kill_threshold and a
\* scale_threshold: args is read for name, type, auto_scale and
\* max_daily_spend only, the kill_threshold of the new service is the
\* literal -10, and a service has no scale threshold of its own
RegisterConfigured(auto, kill, scale, ok) == RegisterService(auto, ok)

\* ----------------------------------------------- the QR generator service
\* a request whose handler has returned
Answered == [kind |-> "answered"]

\* an HTTP reply of the QR service with no body fields of interest
Http(code) == [kind |-> "http", code |-> code]

\* the QR service answers the request rid with r
QRReplies(op, rid, r) ==
  /\ last' = [op |-> op, sid |-> rid,
              status |-> IF r.code = 200 THEN "ok" ELSE "error"]
  /\ reply' = r
  /\ UNCHANGED <<data, disk, lastAutoSave, now, proc, sessions>>

\* the handler of the request rid is suspended at an await
QRAwaits(rid) ==
  /\ last' = [op |-> "await", sid |-> rid, status |-> "ok"]
  /\ reply' = NoReply
  /\ UNCHANGED <<data, disk, lastAutoSave, now, proc, sessions>>

\* the "Update revenue tracking" assignments, for n generated codes
Charged_Flat(q, n) ==
  [q EXCEPT !.dailyRevenue = @ + PRICE_PER_QR,
            !.dailyGenerations = @ + n,
            !.totalGenerations = @ + n]

Charged(q, n) ==
  [q EXCEPT !.dailyRevenue = @ + n * PRICE_PER_QR,
            !.dailyGenerations = @ + n,
            !.totalGenerations = @ + n]

\* the rate limiting middleware rejects a request to the route op
RateLimited(op) ==
  /\ qr' = qr
  /\ QRReplies(op, Len(qr.flight) + 1, Http(429))

\* POST /generate up to its await: validateRequest, the daily limit check
\* and the call of generateQRCode
Generate(body) ==
  LET rid == Len(qr.flight) + 1
  IN  /\ rid <= MaxRequests
      /\ IF body = "invalid"
         THEN qr' = qr /\ QRReplies("generate", rid, Http(400))
         ELSE IF qr.dailyGenerations >= MAX_DAILY_GENERATIONS
         THEN qr' = qr /\ QRReplies("generate", rid, Http(503))
         ELSE /\ qr' = [qr EXCEPT !.flight =
                          Append(@, [kind |-> "single", item |-> body])]
              /\ QRAwaits(rid)

\* POST /generate after its await: generateQRCode has resolved or rejected
GenerateSettled(rid) ==
  /\ rid \in DOMAIN qr.flight
  /\ qr.flight[rid].kind = "single"
  /\ IF qr.flight[rid].item = "ok"
     THEN /\ qr' = [Charged(qr, 1) EXCEPT !.flight[rid] = Answered]
          /\ QRReplies("generate", rid,
                       [kind |-> "http", code |-> 200,
                        cost |-> PRICE_PER_QR])
     ELSE /\ qr' = [qr EXCEPT !.flight[rid] = Answered]
          /\ QRReplies("generate", rid, Http(500))

\* the loop of POST /generate/batch from the item at pos up to its next
\* await: an item that validateRequest rejects is counted as an error at
\* once, any other item calls generateQRCode and suspends the handler
RECURSIVE BatchLoop(_, _, _, _)
BatchLoop(items, pos, successCount, errorCount) ==
  IF pos > Len(items)
  THEN [kind |-> "batch", items |-> items, pos |-> pos,
        successCount |-> successCount, errorCount |-> errorCount]
  ELSE IF items[pos] = "invalid"
  THEN BatchLoop(items, pos + 1, successCount, errorCount + 1)
  ELSE [kind |-> "batch", items |-> items, pos |-> pos,
        successCount |-> successCount, errorCount |-> errorCount]

\* the reply of a batch whose loop has ended
BatchReply(b) ==
  [kind |-> "http", code |-> 200,
   total_requests |-> Len(b.items),
   successful_generations |-> b.successCount,
   failed_generations |-> b.errorCount,
   total_cost |-> b.successCount * PRICE_PER_QR]

\* POST /generate/batch up to its first await, or to its end when no item
\* of it reaches generateQRCode
GenerateBatch(items) ==
  LET rid == Len(qr.flight) + 1
      b == BatchLoop(items, 1, 0, 0)
  IN  /\ rid <= MaxRequests
      /\ IF items = <<>> \/ Len(items) > MaxBatchSize
         THEN qr' = qr /\ QRReplies("generate_batch", rid, Http(400))
         ELSE IF qr.dailyGenerations + Len(items) > MAX_DAILY_GENERATIONS
         THEN qr' = qr /\ QRReplies("generate_batch", rid, Http(503))
         ELSE IF b.pos > Len(items)
         THEN /\ qr' = Charged(qr, b.successCount)
              /\ QRReplies("generate_batch", rid, BatchReply(b))
         ELSE /\ qr' = [qr EXCEPT !.flight = Append(@, b)]
              /\ QRAwaits(rid)

\* POST /generate/batch after an await: generateQRCode has resolved or
\* rejected for the item at pos, and the loop goes on
BatchItemSettled(rid) ==
  /\ rid \in DOMAIN qr.flight
  /\ qr.flight[rid].kind = "batch"
  /\ LET a == qr.flight[rid]
         done == a.items[a.pos] = "ok"
         b == BatchLoop(a.items, a.pos + 1,
                        a.successCount + (IF done THEN 1 ELSE 0),
                        a.errorCount + (IF done THEN 0 ELSE 1))
     IN  IF b.pos > Len(b.items)
         THEN /\ qr' = [Charged(qr, b.successCount)
                          EXCEPT !.flight[rid] = Answered]
              /\ QRReplies("generate_batch", rid, BatchReply(b))
         ELSE /\ qr' = [qr EXCEPT !.flight[rid] = b]
              /\ QRAwaits(rid)

\* the "Reset daily counters at midnight" assignments
ResetDaily(q) ==
  [q EXCEPT !.dailyRevenue = 0, !.dailyGenerations = 0]

\* one period of the first setInterval of startPerformanceMonitoring;
\* midnight tells whether the local time is 00:00
PerformanceMonitoring(midnight) ==
  /\ qr' = IF midnight THEN ResetDaily(qr) ELSE qr
  /\ last' = [op |-> "monitor", sid |-> UnknownId, status |-> "ok"]
  /\ reply' = NoReply
  /\ UNCHANGED <<data, disk, lastAutoSave, now, proc, sessions>>

\* the server is observed from StartTime until the next local midnight, or
\* for Watch timer periods where the auto-save is what is observed
Until == TodayStart(StartTime) + DayLen
Late == StartTime + Watch
FirstFlush == StartTime + IdleThresholdMs \div TimeUnitMs + 1

AutoSaveDue_Doubled(t, las, d) ==
  /\ (t - las) * TimeUnitMs > 2 * IdleThresholdMs
  /\ d.session_metadata.auto_save_enabled

\* the condition of the setInterval callback of startAutoSaveTimer
AutoSaveDue(t, las, d) ==
  /\ (t - las) * TimeUnitMs > IdleThresholdMs
  /\ d.session_metadata.auto_save_enabled

\* one period of the setInterval of startAutoSaveTimer, on a clock followed
\* up to time until: the clock moves on by one period and the callback runs
\* ("flush" when it calls saveData, "tick" when it does not); reading
\* session_metadata of null throws inside the callback, which nothing
\* catches, and ends the process
AutoSaveTimer(ok, until) ==
  /\ proc = "running"
  /\ now < until
  /\ now' = now + 1
  /\ IF data.kind = "null"
     THEN /\ proc' = "down"
          /\ Did("tick")
          /\ UNCHANGED <<data, disk, lastAutoSave>>
     ELSE /\ proc' = proc
          /\ IF AutoSaveDue(now', lastAutoSave, data)
             THEN /\ Commit(SaveData(Cur, now', ok))
                  /\ Did("flush")
             ELSE /\ Did("tick")
                  /\ UNCHANGED <<data, disk, lastAutoSave>>
  /\ UNCHANGED sessions

TimerTick(ok) == AutoSaveTimer(ok, Until)

Stop_OnlyWhenDue(ok) ==
  /\ proc = "running"
  /\ IF AutoSaveDue(now, lastAutoSave, data)
     THEN Commit(SaveData(Cur, now, ok))
     ELSE UNCHANGED <<data, disk, lastAutoSave>>
  /\ proc' = "down"
  /\ Did("stop")
  /\ UNCHANGED <<now, sessions>>

\* stop(), run by the SIGINT and SIGTERM handlers before process.exit(0)
Stop(ok) ==
  /\ proc = "running"
  /\ Commit(SaveData(Cur, now, ok))
  /\ proc' = "down"
  /\ Did("stop")
  /\ UNCHANGED <<now, sessions>>

\* the process ends without running stop()
Crash ==
  /\ proc = "running"
  /\ proc' = "down"
  /\ Did("crash")
  /\ UNCHANGED <<data, disk, lastAutoSave, now, sessions>>

\* time passing while no process runs
AdvanceDown ==
  /\ proc = "down"
  /\ now < Until
  /\ now' = now + 1
  /\ Did("wait")
  /\ UNCHANGED <<data, disk, lastAutoSave, proc, sessions>>

\* what the file can hold besides an image written by saveData
DamagedFiles ==
  {NoFile, BadFile("unreadable"), BadFile("unparseable"),
   Stringify(NonStoreDoc("object")), Stringify(NonStoreDoc("null"))}

\* an image in which auto_save_enabled was set to false by hand (no tool
\* changes the flag)
FlagOffFile ==
  Stringify([EmptyData(0, 0) EXCEPT
               !.session_metadata.auto_save_enabled = FALSE])

EditedFiles == {NoFile, FlagOffFile}

\* the file is removed, damaged or replaced while no process runs
DamageFile(f) ==
  /\ proc = "down"
  /\ disk # f
  /\ disk' = f
  /\ Did("damage")
  /\ UNCHANGED <<data, lastAutoSave, now, proc, sessions>>

\* new RevBotMemoryServer(): field initialisers, loadData(), the timer
Start(ok) ==
  /\ proc = "down"
  /\ sessions < MaxStarts
  /\ sessions' = sessions + 1
  /\ Commit(LoadData(disk, sessions + 1, now, ok))
  /\ proc' = "running"
  /\ Did("start")
  /\ UNCHANGED now

InitWith(W) ==
  /\ now = StartTime
  /\ proc = "running"
  /\ sessions = 1
  /\ last = [op |-> "start", sid |-> UnknownId, status |-> "ok"]
  /\ reply = NoReply
  /\ qr = QRService(0)
  /\ \E ok \in W :
       LET m == LoadData(NoFile, 1, StartTime, ok)
       IN  /\ data = m.data
           /\ disk = m.disk
           /\ lastAutoSave = m.lastAutoSave

\* the tool calls of a running server, with the outcomes W of its writes
ToolCall(W) ==
  \/ \E auto \in BOOLEAN, ok \in W : RegisterService(auto, ok)
  \/ \E sid \in 1..MaxServices, rev \in Revenues, costs \in Costs,
        ok1 \in W, ok2 \in W :
       UpdateServicePerformance(sid, rev, costs, ok1, ok2)
  \/ UpdateServicePerformance(UnknownId, Undefined, Undefined, TRUE, TRUE)
  \/ \E sid \in IdSpace, amount \in Amounts, ok1 \in W, ok2 \in W :
       RecordTransaction(sid, amount, ok1, ok2)

\* a server that keeps running and whose writes succeed
Init == InitWith({TRUE})

Next ==
  \/ ToolCall({TRUE})
  \/ TimerTick(TRUE)

Spec == Init /\ [][Next]_vars

\* a server whose callers register services and report their performance
\* (no payment events arrive)
NextLifecycle ==
  \/ \E auto \in BOOLEAN : RegisterService(auto, TRUE)
  \/ \E sid \in 1..MaxServices, rev \in Revenues, costs \in Costs :
       UpdateServicePerformance(sid, rev, costs, TRUE, TRUE)
  \/ UpdateServicePerformance(UnknownId, Undefined, Undefined, TRUE, TRUE)
  \/ TimerTick(TRUE)

SpecLifecycle == Init /\ [][NextLifecycle]_vars

\* a server whose services are registered without auto-scaling and receive
\* payment events and revenue reports
NextRevenue ==
  \/ RegisterService(FALSE, TRUE)
  \/ \E sid \in 1..MaxServices, rev \in Revenues :
       UpdateServicePerformance(sid, rev, Undefined, TRUE, TRUE)
  \/ \E sid \in IdSpace, amount \in Amounts :
       RecordTransaction(sid, amount, TRUE, TRUE)
  \/ TimerTick(TRUE)

SpecRevenue == Init /\ [][NextRevenue]_vars

\* a server whose services only receive payment events: nothing but
\* recordTransaction and the clock touches a service's daily_revenue
NextPayments ==
  \/ \E auto \in BOOLEAN : RegisterService(auto, TRUE)
  \/ \E sid \in IdSpace, amount \in Amounts :
       RecordTransaction(sid, amount, TRUE, TRUE)
  \/ TimerTick(TRUE)

SpecPayments == Init /\ [][NextPayments]_vars

\* a server that is stopped, killed and started again, whose file can be
\* damaged while it is down, and whose writes can fail; its callers
\* register services and report their performance
InitStartup == InitWith(WriteOutcomes)

NextStartup ==
  \/ \E auto \in BOOLEAN, ok \in WriteOutcomes : RegisterService(auto, ok)
  \/ \E sid \in 1..MaxServices, costs \in Costs,
        ok1 \in WriteOutcomes, ok2 \in WriteOutcomes :
       UpdateServicePerformance(sid, Undefined, costs, ok1, ok2)
  \/ \E ok \in WriteOutcomes : TimerTick(ok)
  \/ \E ok \in WriteOutcomes : Stop(ok)
  \/ Crash
  \/ AdvanceDown
  \/ \E f \in DamagedFiles : DamageFile(f)
  \/ \E ok \in WriteOutcomes : Start(ok)

SpecStartup == InitStartup /\ [][NextStartup]_vars

\* a server that records payment events of any amount, is stopped or killed
\* and started again; all its writes succeed
NextRoundTrip ==
  \/ \E auto \in BOOLEAN : RegisterService(auto, TRUE)
  \/ \E sid \in IdSpace, amount \in LooseAmounts :
       RecordTransaction(sid, amount, TRUE, TRUE)
  \/ TimerTick(TRUE)
  \/ Stop(TRUE)
  \/ Crash
  \/ Start(TRUE)

SpecRoundTrip == Init /\ [][NextRoundTrip]_vars

\* a server whose writes can fail, except the one of its shutdown, that is
\* stopped or killed and started again, possibly on an image with the
\* auto-save switched off
NextShutdown ==
  \/ \E auto \in BOOLEAN, ok \in WriteOutcomes : RegisterService(auto, ok)
  \/ \E ok \in WriteOutcomes : AutoSaveTimer(ok, Late)
  \/ Stop(TRUE)
  \/ Crash
  \/ \E f \in EditedFiles : DamageFile(f)
  \/ \E ok \in WriteOutcomes : Start(ok)

SpecShutdown == InitStartup /\ [][NextShutdown]_vars

\* a server whose writes on the mutation path can fail while those of its
\* timer succeed, and that can be killed at any moment
NextFlush ==
  \/ \E ok \in WriteOutcomes : RegisterService(FALSE, ok)
  \/ \E sid \in IdSpace, ok1 \in WriteOutcomes, ok2 \in WriteOutcomes :
       RecordTransaction(sid, 5, ok1, ok2)
  \/ AutoSaveTimer(TRUE, Late)
  \/ Crash

SpecFlush == InitStartup /\ [][NextFlush]_vars

\* a server on a disk that refuses every write of a tool call, while the
\* writes of its timer succeed
NextWriteFailure ==
  \/ RegisterService(TRUE, FALSE)
  \/ \E sid \in 1..MaxServices :
       UpdateServicePerformance(sid, 5, 20, FALSE, FALSE)
  \/ \E sid \in 1..MaxServices : RecordTransaction(sid, 55, FALSE, FALSE)
  \/ AutoSaveTimer(TRUE, FirstFlush)

SpecWriteFailure == Init /\ [][NextWriteFailure]_vars

\* a server any of whose writes can fail, those of its timer included
NextRetry ==
  \/ \E ok \in WriteOutcomes : RegisterService(FALSE, ok)
  \/ \E sid \in IdSpace, ok1 \in WriteOutcomes, ok2 \in WriteOutcomes :
       RecordTransaction(sid, 5, ok1, ok2)
  \/ \E ok \in WriteOutcomes : AutoSaveTimer(ok, Late)

SpecRetry == InitStartup /\ [][NextRetry]_vars

\* a server whose callers name services and blockers, existing or not
NextNotFound ==
  \/ RegisterService(TRUE, TRUE)
  \/ \E sid \in IdSpace, rev \in {Undefined, 60} :
       UpdateServicePerformance(sid, rev, Undefined, TRUE, TRUE)
  \/ \E sev \in Severities : LogBlocker(sev, TRUE)
  \/ \E bid \in BlockerIdSpace : ResolveBlocker(bid, Resolution, TRUE)
  \/ TimerTick(TRUE)

SpecNotFound == Init /\ [][NextNotFound]_vars

\* a server whose callers log decisions
NextDecisions ==
  \/ \E outcome \in Outcomes, impact \in Impacts, risk \in Risks,
        conf \in Confidences :
       LogDecision(outcome, impact, risk, conf, TRUE)
  \/ TimerTick(TRUE)

SpecDecisions == Init /\ [][NextDecisions]_vars

\* a server whose callers log conversation turns, leaving the context type
\* and the importance to the extractor
NextConversation ==
  \/ \E text \in Texts, given \in GivenEntities :
       LogConversationTurn(text, UndefinedStr, given, Undefined, TRUE, TRUE)
  \/ TimerTick(TRUE)

SpecConversation == Init /\ [][NextConversation]_vars

\* a server whose callers log conversation turns that touch the keyword
\* families of the classifier, leaving the context type to the extractor
NextClassify ==
  \/ \E text \in SUBSET ClassWords :
       LogConversationTurn(text, UndefinedStr, <<>>, Undefined, TRUE, TRUE)
  \/ TimerTick(TRUE)

SpecClassify == Init /\ [][NextClassify]_vars

\* a server whose callers log conversation turns with or without an
\* importance_score of their own
NextImportance ==
  \/ \E text \in SUBSET ImportanceWords, score \in Scores :
       LogConversationTurn(text, UndefinedStr, <<>>, score, TRUE, TRUE)
  \/ TimerTick(TRUE)

SpecImportance == Init /\ [][NextImportance]_vars

\* an image into which a conversation turn of another session was copied
ForeignFile ==
  Stringify([EmptyData(1, 0) EXCEPT !.conversation_turns =
    <<[id |-> 1,
       session_id |-> UnknownId,
       timestamp |-> 0,
       text |-> {},
       context_type |-> InferContextType({}),
       extracted_entities |-> ExtractEntities({}),
       importance_score |-> ImportanceScore({})]>>])

\* a server whose callers log conversation turns and blockers, resolve
\* blockers and ask for the session context; it can be killed and started
\* again, possibly on an image that holds a turn of another session
NextContext ==
  \/ LogConversationTurn({}, UndefinedStr, <<>>, Undefined, TRUE, TRUE)
  \/ LogBlocker("high", TRUE)
  \/ \E bid \in BlockerIdSpace : ResolveBlocker(bid, Resolution, TRUE)
  \/ \E n \in MaxTurnCounts : GetFullSessionContext(n)
  \/ TimerTick(TRUE)
  \/ Crash
  \/ DamageFile(ForeignFile)
  \/ Start(TRUE)

SpecContext == Init /\ [][NextContext]_vars

\* a server whose callers fill every collection and use every read
\* operation
NextReads ==
  \/ RegisterService(FALSE, TRUE)
  \/ \E sid \in 1..MaxServices : RecordTransaction(sid, 5, TRUE, TRUE)
  \/ LogDecision(UndefinedStr, Undefined, UndefinedStr, Undefined, TRUE)
  \/ SaveBusinessState("alpha", TRUE)
  \/ \E profit \in {10, 100} : RecordMarketOpportunity(profit, TRUE)
  \/ GetRevenueAnalytics(Undefined, Undefined)
  \/ GetBusinessInsights
  \/ \E status \in StatusArgs : GetMarketOpportunities(status, Undefined)
  \/ \E filter \in StatusFilters : GetAllServices(filter)
  \/ GetCurrentBusinessState
  \/ GetPendingDecisions
  \/ GetFullSessionContext(Undefined)
  \/ TimerTick(TRUE)

SpecReads == Init /\ [][NextReads]_vars

\* a server whose callers record payments and opportunities and ask for
\* the analytics, possibly twice in a row
NextAnalytics ==
  \/ RegisterService(FALSE, TRUE)
  \/ \E sid \in 1..MaxServices : RecordTransaction(sid, 5, TRUE, TRUE)
  \/ \E profit \in {Undefined, 100} : RecordMarketOpportunity(profit, TRUE)
  \/ \E days \in {Undefined, 1} : GetRevenueAnalytics(days, Undefined)
  \/ GetBusinessInsights
  \/ \E status \in StatusArgs, limit \in Limits :
       GetMarketOpportunities(status, limit)
  \/ TimerTick(TRUE)

SpecAnalytics == Init /\ [][NextAnalytics]_vars

\* the server is observed until a payment of its first period has left a
\* lookback window of one day
WindowEnd == StartTime + DayLen + 1

\* a server whose callers record small payments of an unknown service and
\* large ones of registered services, and ask for the revenue analytics of
\* a window, of one service or of all
NextRevenueAnalytics ==
  \/ RegisterService(FALSE, TRUE)
  \/ RecordTransaction(UnknownId, 5, TRUE, TRUE)
  \/ \E sid \in 1..MaxServices : RecordTransaction(sid, 55, TRUE, TRUE)
  \/ \E days \in Timeframes : GetRevenueAnalytics(days, Undefined)
  \/ \E sid \in IdSpace : GetRevenueAnalytics(1, sid)
  \/ AutoSaveTimer(TRUE, WindowEnd)

SpecRevenueAnalytics == Init /\ [][NextRevenueAnalytics]_vars

\* a server whose callers register auto-scaling services, report their
\* performance and ask for the business insights
NextInsights ==
  \/ \E auto \in BOOLEAN : RegisterService(auto, TRUE)
  \/ \E sid \in 1..MaxServices, rev \in {5, 20, 80, 200} :
       UpdateServicePerformance(sid, rev, 10, TRUE, TRUE)
  \/ GetBusinessInsights
  \/ TimerTick(TRUE)

SpecInsights == Init /\ [][NextInsights]_vars

\* a server whose callers record market opportunities and ask for their
\* ranking
NextOpportunities ==
  \/ \E profit \in Profits : RecordMarketOpportunity(profit, TRUE)
  \/ \E status \in StatusArgs, limit \in Limits :
       GetMarketOpportunities(status, limit)
  \/ TimerTick(TRUE)

SpecOpportunities == Init /\ [][NextOpportunities]_vars

\* a server whose callers record payments, with or without an amount, save
\* business snapshots and ask for the current one; it is stopped or killed
\* and started again, and all its writes succeed
NextSnapshots ==
  \/ \E amount \in LooseAmounts :
       RecordTransaction(UnknownId, amount, TRUE, TRUE)
  \/ \E summary \in Summaries : SaveBusinessState(summary, TRUE)
  \/ GetCurrentBusinessState
  \/ TimerTick(TRUE)
  \/ Stop(TRUE)
  \/ Crash
  \/ Start(TRUE)

SpecSnapshots == Init /\ [][NextSnapshots]_vars

\* a server whose callers log decisions, pending or approved, and ask for
\* the pending ones
NextPending ==
  \/ \E outcome \in Outcomes, impact \in Impacts, risk \in Risks :
       LogDecision(outcome, impact, risk, Undefined, TRUE)
  \/ GetPendingDecisions
  \/ TimerTick(TRUE)

SpecPending == Init /\ [][NextPending]_vars

\* a server whose callers register every service with a kill threshold and
\* a scale threshold of its own and report its performance
NextThresholds ==
  \/ \E auto \in BOOLEAN :
       RegisterConfigured(auto, AskedKillThreshold, AskedScaleThreshold, TRUE)
  \/ \E sid \in 1..MaxServices, rev \in Revenues, costs \in Costs :
       UpdateServicePerformance(sid, rev, costs, TRUE, TRUE)
  \/ TimerTick(TRUE)

SpecThresholds == Init /\ [][NextThresholds]_vars

\* a server whose callers register auto-scaling services, report high
\* revenues and log decisions of their own
NextApproval ==
  \/ RegisterService(TRUE, TRUE)
  \/ \E sid \in 1..MaxServices, rev \in HighRevenues, costs \in Costs :
       UpdateServicePerformance(sid, rev, costs, TRUE, TRUE)
  \/ \E outcome \in Outcomes, impact \in Impacts :
       LogDecision(outcome, impact, UndefinedStr, Undefined, TRUE)
  \/ TimerTick(TRUE)

SpecApproval == Init /\ [][NextApproval]_vars

\* a server whose callers log blockers and resolve them, some of them more
\* than once; it is stopped or killed and started again
NextBlockers ==
  \/ \E sev \in Severities : LogBlocker(sev, TRUE)
  \/ \E bid \in BlockerIdSpace : ResolveBlocker(bid, Resolution, TRUE)
  \/ TimerTick(TRUE)
  \/ Stop(TRUE)
  \/ Crash
  \/ Start(TRUE)

SpecBlockers == Init /\ [][NextBlockers]_vars

\* a server whose callers append to the collections, MaxRecords records
\* in all (a lifecycle Decision may come on top), and use the operations
\* that write to a record in place or sort a collection in place
NextAppend ==
  \/ Records(data) < MaxRecords /\ RegisterService(TRUE, TRUE)
  \/ \E sid \in 1..MaxServices :
       /\ Records(data) < MaxRecords
       /\ UpdateServicePerformance(sid, 5, 20, TRUE, TRUE)
  \/ \E sid \in 1..MaxServices :
       /\ Records(data) < MaxRecords
       /\ RecordTransaction(sid, 5, TRUE, TRUE)
  \/ Records(data) < MaxRecords /\ SaveBusinessState("alpha", TRUE)
  \/ GetCurrentBusinessState
  \/ /\ Records(data) < MaxRecords
     /\ LogConversationTurn({}, UndefinedStr, <<>>, Undefined, TRUE, TRUE)
  \/ Records(data) < MaxRecords /\ LogBlocker("high", TRUE)
  \/ \E bid \in 1..MaxBlockers : ResolveBlocker(bid, Resolution, TRUE)
  \/ \E profit \in {10, 100} :
       /\ Records(data) < MaxRecords
       /\ RecordMarketOpportunity(profit, TRUE)
  \/ GetMarketOpportunities(UndefinedStr, Undefined)
  \/ LogTechnicalDiscovery(TRUE)
  \/ LogProgressMilestone(TRUE)
  \/ GetFullSessionContext(Undefined)
  \/ TimerTick(TRUE)

SpecAppend == Init /\ [][NextAppend]_vars

\* a server that may have failed to write its first image and whose
\* callers then use every mutating operation, each write of which succeeds
NextWriteThrough ==
  \/ Records(data) < MaxRecords /\ RegisterService(TRUE, TRUE)
  \/ \E sid \in 1..MaxServices :
       /\ Records(data) < MaxRecords
       /\ UpdateServicePerformance(sid, Undefined, 20, TRUE, TRUE)
  \/ \E sid \in IdSpace, amount \in {5, Huge} :
       /\ Records(data) < MaxRecords
       /\ RecordTransaction(sid, amount, TRUE, TRUE)
  \/ /\ Records(data) < MaxRecords
     /\ LogDecision(UndefinedStr, Undefined, UndefinedStr, Undefined, TRUE)
  \/ Records(data) < MaxRecords /\ RecordMarketOpportunity(10, TRUE)
  \/ Records(data) < MaxRecords /\ SaveBusinessState("alpha", TRUE)
  \/ /\ Records(data) < MaxRecords
     /\ LogConversationTurn({"decided"}, UndefinedStr, <<>>, Undefined,
                            TRUE, TRUE)
  \/ Records(data) < MaxRecords /\ LogBlocker("high", TRUE)
  \/ \E bid \in 1..MaxBlockers : ResolveBlocker(bid, Resolution, TRUE)
  \/ LogTechnicalDiscovery(TRUE)
  \/ LogProgressMilestone(TRUE)
  \/ TimerTick(TRUE)

SpecWriteThrough == InitStartup /\ [][NextWriteThrough]_vars

\* a server with lifecycle-managed services whose costs are reported,
\* whose payments are recorded and whose conversation is logged, under a
\* timer and a shutdown, and whose writes may fail
NextImages ==
  \/ Records(data) < MaxRecords /\ RegisterService(TRUE, TRUE)
  \/ \E sid \in 1..MaxServices, ok1 \in WriteOutcomes, ok2 \in WriteOutcomes :
       /\ Records(data) < MaxRecords
       /\ UpdateServicePerformance(sid, Undefined, 20, ok1, ok2)
  \/ \E sid \in 1..MaxServices, amount \in {5, 80},
        ok1 \in WriteOutcomes, ok2 \in WriteOutcomes :
       /\ Records(data) < MaxRecords
       /\ RecordTransaction(sid, amount, ok1, ok2)
  \/ \E text \in {{}, {"decided"}},
        ok1 \in WriteOutcomes, ok2 \in WriteOutcomes :
       /\ Records(data) < MaxRecords
       /\ LogConversationTurn(text, UndefinedStr, <<>>, Undefined, ok1, ok2)
  \/ \E ok \in WriteOutcomes : TimerTick(ok)
  \/ \E ok \in WriteOutcomes : Stop(ok)
  \/ Crash

SpecImages == Init /\ [][NextImages]_vars

\* the QR generator service, first observed with no request in flight,
\* serving up to MaxRequests requests that may overlap
InitQR ==
  /\ now = StartTime
  /\ proc = "running"
  /\ sessions = 1
  /\ last = [op |-> "start", sid |-> UnknownId, status |-> "ok"]
  /\ reply = NoReply
  /\ data = LoadData(NoFile, 1, StartTime, TRUE).data
  /\ disk = LoadData(NoFile, 1, StartTime, TRUE).disk
  /\ lastAutoSave = LoadData(NoFile, 1, StartTime, TRUE).lastAutoSave
  /\ \E n \in QRStartCounts : qr = QRService(n)

NextQR ==
  \/ \E op \in {"generate", "generate_batch"} : RateLimited(op)
  \/ \E body \in Items : Generate(body)
  \/ \E rid \in 1..MaxRequests : GenerateSettled(rid)
  \/ \E items \in Batches : GenerateBatch(items)
  \/ \E rid \in 1..MaxRequests : BatchItemSettled(rid)
  \/ \E midnight \in BOOLEAN : PerformanceMonitoring(midnight)

SpecQR == InitQR /\ [][NextQR]_vars

\* ------------------------------------------------- vocabulary of the claims
Ids(d) == {d.services[i].id : i \in 1..Len(d.services)}
Svc(d, sid) == d.services[CHOOSE i \in 1..Len(d.services) :
                            d.services[i].id = sid]
Profit(svc) == svc.daily_revenue - svc.daily_costs

\* the step just taken was this tool call for service sid, and it returned
UpdateStep(sid) ==
  last' = [op |-> "update_service_performance", sid |-> sid, status |-> "ok"]

RecordStep(sid) ==
  last' = [op |-> "record_transaction", sid |-> sid, status |-> "ok"]

DecisionsOf(d, type, sid) ==
  {i \in 1..Len(d.decisions) :
     d.decisions[i].decision_type = type /\ d.decisions[i].context = sid}

\* exactly one Decision was appended, and it reads as given
AppendedOne(type, outcome, risk, confidence, impact) ==
  /\ Len(data'.decisions) = Len(data.decisions) + 1
  /\ SubSeq(data'.decisions, 1, Len(data.decisions)) = data.decisions
  /\ LET dec == data'.decisions[Len(data'.decisions)]
     IN  /\ dec.decision_type = type
         /\ dec.outcome = outcome
         /\ dec.risk_level = risk
         /\ dec.confidence_score = confidence
         /\ dec.revenue_impact = impact
         /\ dec.impact_metrics.risk_level = risk
         /\ dec.impact_metrics.confidence_score = confidence
         /\ dec.impact_metrics.revenue_impact = impact

SameDay(t1, t2) == t1 \div DayLen = t2 \div DayLen

\* the sum of the amounts of a service's Transactions of the day of time t
DaySum(d, sid, t) ==
  SumAmounts(SelectSeq(d.transactions,
    LAMBDA x : x.service_id = sid /\ SameDay(x.timestamp, t)))

StatusRank(st) ==
  CASE st = "active" -> 1
    [] st = "scaling" -> 2
    [] st = "killed" -> 3
    [] OTHER -> 0

C2_KillOnce ==
  IsStore(data) =>
    \A sid \in Ids(data) :
      Cardinality(DecisionsOf(data, "auto_kill_service", sid)) <= 1

C4_OneWay ==
  [][(proc = "running" /\ proc' = "running" /\ IsStore(data))
     => \A sid \in Ids(data) :
          /\ sid \in Ids(data')
          /\ StatusRank(Svc(data', sid).status)
               >= StatusRank(Svc(data, sid).status)]_vars

\* a killed service whose counters would match the scale rule
C4_Witness ==
  /\ IsStore(data)
  /\ \E sid \in Ids(data) :
       /\ Svc(data, sid).status = "killed"
       /\ Svc(data, sid).auto_scale
       /\ Profit(Svc(data, sid)) > 50

\* C5: at most one auto_scale_service Decision is ever appended for a
\* service, however often its daily_profit exceeds 50.
C5_ScaleOnce ==
  IsStore(data) =>
    \A sid \in Ids(data) :
      Cardinality(DecisionsOf(data, "auto_scale_service", sid)) <= 1

\* a scaling service whose counters were written again after it was scaled
\* and still show a profit above 50
C5_Witness ==
  /\ IsStore(data)
  /\ \E sid \in Ids(data) :
       /\ Svc(data, sid).status = "scaling"
       /\ Profit(Svc(data, sid)) > 50
       /\ \E i \in DecisionsOf(data, "auto_scale_service", sid) :
            data.decisions[i].revenue_impact # 2 * Profit(Svc(data, sid))

\* C6: a performance update changes neither the status nor the Decision log
\* when auto_scale is off, or when daily_profit is at least the kill
\* threshold and not (above 50 with status active); a profit of exactly
\* the kill threshold or exactly 50 changes nothing.
C6_NoRuleNoChange ==
  [][\A sid \in 1..MaxServices :
       (/\ UpdateStep(sid)
        /\ \/ ~Svc(data', sid).auto_scale
           \/ /\ Profit(Svc(data', sid)) >= Svc(data', sid).kill_threshold
              /\ ~(/\ Profit(Svc(data', sid)) > 50
                   /\ Svc(data, sid).status = "active"))
       => /\ Svc(data', sid).status = Svc(data, sid).status
          /\ data'.decisions = data.decisions]_vars

\* an active auto_scale service brought to a profit of exactly 50
C6_Witness ==
  /\ IsStore(data)
  /\ \E sid \in Ids(data) :
       /\ last = [op |-> "update_service_performance", sid |-> sid,
                  status |-> "ok"]
       /\ Svc(data, sid).auto_scale
       /\ Svc(data, sid).status = "active"
       /\ Profit(Svc(data, sid)) = 50
       /\ Svc(data, sid).daily_costs = 10
       /\ data.decisions = <<>>

\* C7: after any completed operation an auto_scale service whose
\* daily_profit is below its kill threshold has status killed, and an
\* auto_scale service with status active has a daily_profit of at most 50.
C7_RulesAlwaysApplied ==
  IsStore(data) =>
    \A sid \in Ids(data) :
      Svc(data, sid).auto_scale =>
        /\ Profit(Svc(data, sid)) < Svc(data, sid).kill_threshold
             => Svc(data, sid).status = "killed"
        /\ Svc(data, sid).status = "active"
             => Profit(Svc(data, sid)) <= 50

\* C8: after each record_transaction for a registered service its
\* daily_revenue is the sum of the amounts of that service's Transactions
\* of the current local day; Transactions of other services and of earlier
\* days are not counted.
C8_RevenueRecomputed ==
  [][\A sid \in 1..MaxServices :
       (RecordStep(sid) /\ sid \in Ids(data'))
       => Svc(data', sid).daily_revenue = DaySum(data', sid, now')]_vars

\* a service whose revenue is its own Transaction of today while the log
\* holds a Transaction of another service or of an earlier day
C8_Witness ==
  /\ IsStore(data)
  /\ Len(data.transactions) = 2
  /\ \E sid \in Ids(data) :
       /\ last = [op |-> "record_transaction", sid |-> sid, status |-> "ok"]
       /\ data.transactions[2].service_id = sid
       /\ data.transactions[2].timestamp = now
       /\ \/ data.transactions[1].service_id # sid
          \/ ~SameDay(data.transactions[1].timestamp, now)
       /\ Svc(data, sid).daily_revenue = data.transactions[2].amount

\* C9: in every reachable state each service's daily_revenue equals the sum
\* of the amounts of its Transactions of the current local day.
C9_RevenueIsDaySum ==
  IsStore(data) =>
    \A sid \in Ids(data) :
      Svc(data, sid).daily_revenue = DaySum(data, sid, now)

\* C10: a start yields the persisted graph when the file holds one, and an
\* empty graph with fresh SessionMetadata when the file is missing,
\* unreadable, unparseable or holds something that is not a store document;
\* in every case the server then holds a graph its operations can work on.
C10_LoadYieldsGraph ==
  [][(proc = "down" /\ proc' = "running")
     => IF disk.kind = "json" /\ IsStore(disk.doc)
        THEN data' = disk.doc
        ELSE /\ IsStore(data')
             /\ data'.services = <<>>
             /\ data'.transactions = <<>>
             /\ data'.decisions = <<>>
             /\ data'.session_metadata.current_session_id = sessions'
             /\ data'.session_metadata.session_start = now]_vars

\* the content of a graph without the session id of its SessionMetadata
Content(d) == [d EXCEPT !.session_metadata.current_session_id = 0]

\* C11: persisting the store and then reloading it (a stop, which writes
\* the graph, followed by a start) yields a graph equal in content to the
\* graph that was persisted, the session id set aside.
C11_RoundTrip ==
  [][(last.op = "stop" /\ proc = "down" /\ proc' = "running")
     => Content(data') = Content(data)]_vars

FlushIntervalMs == IdleThresholdMs + TimeUnitMs

\* record i of the in-memory Transaction log is in the persisted image
Persisted(i) ==
  /\ disk.kind = "json"
  /\ Len(disk.doc.transactions) >= i
  /\ disk.doc.transactions[i] = data.transactions[i]

MutatingOps ==
  {"register_service", "update_service_performance", "record_transaction"}

\* the mutation of the tool call just made is in the in-memory graph
MutationKept ==
  CASE last'.op = "register_service" ->
         /\ Len(data'.services) = Len(data.services) + 1
         /\ data'.services[Len(data'.services)].id = last'.sid
    [] last'.op = "record_transaction" ->
         /\ Len(data'.transactions) = Len(data.transactions) + 1
         /\ data'.transactions[Len(data'.transactions)].service_id
              = last'.sid
         /\ last'.sid \in Ids(data')
              => Svc(data', last'.sid).daily_revenue
                   = DaySum(data', last'.sid, now')
    [] last'.op = "update_service_performance" ->
         /\ Svc(data', last'.sid).daily_costs = 20
         /\ Svc(data', last'.sid).daily_revenue = 5
         /\ KillRule(Svc(data', last'.sid))
              => /\ Svc(data', last'.sid).status = "killed"
                 /\ Len(data'.decisions) = Len(data.decisions) + 1
    [] OTHER -> FALSE

TimerStep == last'.op \in {"tick", "flush"}

\* C15: after a write failure (the image is not the in-memory graph) and
\* without any further mutation, the scheduler attempts the write again at
\* its next tick.
C15_RetryNextTick ==
  [][(TimerStep /\ disk # Stringify(data)) => last'.op = "flush"]_vars


\* C16: a mutating operation performs no durable write before it returns:
\* the persisted image is unchanged by the step of the tool call.
C16_NoWriteOnMutation ==
  [][(last'.op \in MutatingOps /\ last'.status = "ok")
     => disk' = disk]_vars

BlockerIdsOf(d) == {d.blockers[i].id : i \in 1..Len(d.blockers)}

\* the tool call just made failed and changed nothing, in memory or on disk
FailedUnchanged ==
  /\ last'.status = "error"
  /\ data' = data
  /\ disk' = disk
  /\ lastAutoSave' = lastAutoSave

\* C17: update_service_performance with a service id that is not in the
\* store and resolve_blocker with a blocker id that is not in the store
\* return an error and change nothing: no counter, status or collection,
\* no Decision, no durable write.
C17_NotFound ==
  [][/\ (last'.op = "update_service_performance"
          /\ last'.sid \notin Ids(data)) => FailedUnchanged
     /\ (last'.op = "resolve_blocker"
          /\ last'.sid \notin BlockerIdsOf(data)) => FailedUnchanged]_vars

\* an update naming no service fails in a store that holds a service and a
\* blocker, some time after the last save
C17_Witness ==
  /\ last = [op |-> "update_service_performance", sid |-> UnknownId,
             status |-> "error"]
  /\ Len(data.services) = 1
  /\ Len(data.blockers) = 1
  /\ now > data.session_metadata.last_activity

\* C18: record_transaction whose service_id names no registered service
\* returns an error (NotFound) to the caller and appends no Transaction.
C18_UnknownServiceRejected ==
  [][(last'.op = "record_transaction" /\ last'.sid \notin Ids(data))
     => /\ last'.status = "error"
        /\ data'.transactions = data.transactions]_vars

\* C19: a log_decision with a confidence_score outside [0,1] is rejected
\* and appends nothing, so that every Decision in the store has a
\* confidence within [0,1] (in hundredths, 0..100), both as given and in
\* its impact metrics.
C19_ConfidenceInRange ==
  IsStore(data) =>
    \A i \in 1..Len(data.decisions) :
      /\ data.decisions[i].confidence_score \in (0..100) \cup {Undefined}
      /\ data.decisions[i].impact_metrics.confidence_score \in 0..100

\* C20: log_conversation_turn appends exactly one InteractionRecord, one
\* auxiliary Decision for each decision term of its extracted entities and
\* one auxiliary Blocker for each blocker term (none of a kind when the
\* kind has no term): a text with "error" and "decided" yields exactly one
\* auxiliary Blocker and one auxiliary Decision.
C20_OneAuxiliaryPerTerm ==
  [][(last'.op = "log_conversation_turn" /\ last'.status = "ok")
     => /\ Len(data'.conversation_turns) = Len(data.conversation_turns) + 1
        /\ LET turn == data'.conversation_turns[Len(data'.conversation_turns)]
           IN  /\ Len(data'.decisions) = Len(data.decisions)
                    + Len(turn.extracted_entities.decisions_made)
               /\ Len(data'.blockers) = Len(data.blockers)
                    + Len(turn.extracted_entities.blockers_identified)]_vars

\* the categories in their priority order, and the keyword family of each
Categories == <<"planning", "implementation", "debugging", "decision">>

FamilyOf(c) ==
  CASE c = "planning" -> {"plan", "strategy", "roadmap"}
    [] c = "implementation" -> {"build", "implement", "deploy"}
    [] c = "debugging" -> {"error", "debug", "fix"}
    [] c = "decision" -> {"decide", "choose", "approve"}

Matches(text, c) == \E kw \in FamilyOf(c) : Includes(text, kw)

\* the turn that the log_conversation_turn just made has appended
NewTurn == data'.conversation_turns[Len(data'.conversation_turns)]

TurnStep == last'.op = "log_conversation_turn" /\ last'.status = "ok"

\* C21: a turn logged without a context_type gets exactly one category:
\* the first of planning, implementation, debugging, decision whose keyword
\* family its text matches, and analysis when it matches none (so a text
\* matching only the debugging and decision families is debugging).
C21_FirstMatch ==
  [][TurnStep
     => \/ \E i \in 1..Len(Categories) :
             /\ Matches(NewTurn.text, Categories[i])
             /\ \A j \in 1..(i - 1) : ~Matches(NewTurn.text, Categories[j])
             /\ NewTurn.context_type = Categories[i]
        \/ /\ \A i \in 1..Len(Categories) :
                ~Matches(NewTurn.text, Categories[i])
           /\ NewTurn.context_type = "analysis"]_vars

\* a stored turn whose text matches only the debugging and decision
\* families and is classified debugging
C21_Witness ==
  /\ IsStore(data)
  /\ \E i \in 1..Len(data.conversation_turns) :
       /\ data.conversation_turns[i].text = {"error", "decided"}
       /\ data.conversation_turns[i].context_type = "debugging"

\* the terms of the importance score and their increments, in hundredths
TermScore(text, terms, inc) ==
  IF \E kw \in terms : Includes(text, kw) THEN inc ELSE 0

ClaimedScore(text) ==
  LET sum == 30 + TermScore(text, {"critical", "urgent"}, 30)
                + TermScore(text, {"revenue", "payment", "money"}, 20)
                + TermScore(text, {"decision", "approve"}, 20)
                + TermScore(text, {"blocker", "error", "problem"}, 20)
                + TermScore(text, {"complete", "finished", "done"}, 10)
  IN  IF sum > 100 THEN 100 ELSE sum

\* C22: the importance computed for a text is min(1.0, 0.3 + 0.3u + 0.2r +
\* 0.2d + 0.2b + 0.1c), and every stored InteractionRecord has an
\* importance score within [0,1] (in hundredths, 0..100) whatever the
\* caller passed.
C22_ImportanceInRange ==
  IsStore(data) =>
    \A i \in 1..Len(data.conversation_turns) :
      /\ ImportanceScore(data.conversation_turns[i].text)
           = ClaimedScore(data.conversation_turns[i].text)
      /\ data.conversation_turns[i].importance_score \in 0..100

\* the conversation turn of graph d whose id is id
TurnOf(d, id) ==
  d.conversation_turns[CHOOSE i \in 1..Len(d.conversation_turns) :
                         d.conversation_turns[i].id = id]

\* the ids of the turns of the current session of graph d
CurrentTurns(d) ==
  {d.conversation_turns[i].id :
     i \in {j \in 1..Len(d.conversation_turns) :
              d.conversation_turns[j].session_id
                = d.session_metadata.current_session_id}}

\* the reply lists n turns when the current session has that many and all
\* of them otherwise: distinct turns of the current session, none of them
\* older than a turn left out, oldest first; and it lists the blockers that
\* are not resolved
ListsMostRecent(n) ==
  LET r == reply'.turns
      listed == {r[i] : i \in 1..Len(r)}
      cur == CurrentTurns(data)
  IN  /\ Len(r) = (IF Cardinality(cur) < n THEN Cardinality(cur) ELSE n)
      /\ Cardinality(listed) = Len(r)
      /\ listed \subseteq cur
      /\ \A x \in listed, y \in cur \ listed :
           TurnOf(data, x).timestamp >= TurnOf(data, y).timestamp
      /\ \A i \in 1..Len(r), j \in 1..Len(r) :
           i < j => TurnOf(data, r[i]).timestamp
                      <= TurnOf(data, r[j]).timestamp
      /\ reply'.blockers
           = {b \in BlockerIdsOf(data) :
                \E i \in 1..Len(data.blockers) :
                  /\ data.blockers[i].id = b
                  /\ data.blockers[i].status # "resolved"}

ContextStep ==
  last'.op = "get_full_session_context" /\ last'.status = "ok"

ReadOps ==
  {"get_revenue_analytics", "get_business_insights",
   "get_market_opportunities", "get_all_services",
   "get_current_business_state", "get_pending_decisions",
   "get_full_session_context"}

\* C24: the read operations leave the in-memory graph as it is (content and
\* element order of every collection, SessionMetadata) and write nothing
\* to the file.
C24_ReadsDoNotMutate ==
  [][last'.op \in ReadOps
     => /\ data' = data
        /\ disk' = disk]_vars

AnalyticsOps ==
  {"get_revenue_analytics", "get_business_insights",
   "get_market_opportunities"}

\* C25: an analytics call that repeats the call of the step before (same
\* operation, same arguments, nothing in between, same clock) returns the
\* same report, the order of its entries included.
C25_Idempotent ==
  [][(last'.op \in AnalyticsOps /\ last'.status = "ok" /\ reply'.repeat)
     => /\ reply'.report = reply.report
        /\ now' = now]_vars

\* the ranking is asked for twice in a row and answers with an order that
\* is not the order of creation
C25_Witness ==
  /\ last.op = "get_market_opportunities"
  /\ reply.kind = "opportunities"
  /\ reply.repeat
  /\ reply.args = <<UndefinedStr, Undefined>>
  /\ reply.report = <<2, 1>>

\* the sum of the amounts of the Transactions at the positions S of the log
RECURSIVE AmountOf(_)
AmountOf(S) ==
  IF S = {} THEN 0
  ELSE LET i == CHOOSE j \in S : TRUE
       IN  data.transactions[i].amount + AmountOf(S \ {i})

AnalyticsStep ==
  last'.op = "get_revenue_analytics" /\ last'.status = "ok"

\* the report just returned is the one of a lookback window of days days:
\* it counts exactly the Transactions of the window (of the service asked
\* for, when one is), gives each service that has one its count, sum,
\* average and daily average, lists the services by descending sum, and
\* reports 0 for everything when the window is empty
ReportsWindow(days) ==
  LET rep == reply'.report
      sid == reply'.args[2]
      W == {i \in 1..Len(data.transactions) :
              /\ data.transactions[i].timestamp >= now - days * DayLen
              /\ sid # Undefined => data.transactions[i].service_id = sid}
      Of(id) == {i \in W : data.transactions[i].service_id = id}
      ids == {data.transactions[i].service_id : i \in W}
      by == rep.by_service
  IN  /\ rep.total_transactions = Cardinality(W)
      /\ rep.total_revenue = AmountOf(W)
      /\ rep.avg_transaction = (IF W = {} THEN Div(0, 1)
                                ELSE Div(AmountOf(W), Cardinality(W)))
      /\ Len(by) = Cardinality(ids)
      /\ {by[k].service_id : k \in 1..Len(by)} = ids
      /\ \A k \in 1..Len(by) :
           /\ by[k].transaction_count = Cardinality(Of(by[k].service_id))
           /\ by[k].total_revenue = AmountOf(Of(by[k].service_id))
           /\ by[k].avg_transaction
                = Div(by[k].total_revenue, by[k].transaction_count)
           /\ by[k].daily_average = Div(by[k].total_revenue, days)
      /\ \A j \in 1..Len(by), k \in 1..Len(by) :
           j < k => by[j].total_revenue >= by[k].total_revenue

\* C26 as stated: get_revenue_analytics(timeframe_days, optional service)
\* reports the Transactions of the last timeframe_days days, by service
\* with count, sum, average and daily average, in descending sum, and zeros
\* for an empty window.
C26_WindowOfDays ==
  [][(AnalyticsStep /\ reply'.args[1] # Undefined)
     => ReportsWindow(reply'.args[1])]_vars

\* C26, amended: the same for a timeframe_days of at least 1; a
\* timeframe_days of 0, like none, stands for the default of 30 days.
C26_RevenueReport ==
  [][AnalyticsStep
     => ReportsWindow(IF reply'.args[1] \in {Undefined, 0}
                      THEN 30 ELSE reply'.args[1])]_vars

\* a report on a one-day window that leaves out the older of two payments
\* and counts the one made exactly one day ago
C26_Witness ==
  /\ last.op = "get_revenue_analytics"
  /\ reply.kind = "analytics"
  /\ reply.args = <<1, Undefined>>
  /\ Len(data.transactions) = 2
  /\ data.transactions[1].timestamp < now - DayLen
  /\ data.transactions[2].timestamp = now - DayLen
  /\ reply.report.total_transactions = 1
  /\ reply.report.total_revenue = data.transactions[2].amount

\* the services that run: status active or scaling
Running(d) ==
  {i \in 1..Len(d.services) : d.services[i].status \in {"active", "scaling"}}

RECURSIVE ProfitOver(_, _)
ProfitOver(d, S) ==
  IF S = {} THEN 0
  ELSE LET i == CHOOSE j \in S : TRUE
       IN  Profit(d.services[i]) + ProfitOver(d, S \ {i})

\* C27: get_business_insights reports as daily profit the sum of
\* daily_revenue - daily_costs over the services whose status is active or
\* scaling, and exactly one verdict: urgent below 0, caution from 0 to
\* below 10, strong above 100, none from 10 to 100.
C27_PortfolioRollup ==
  [][(last'.op = "get_business_insights" /\ last'.status = "ok")
     => LET profit == ProfitOver(data, Running(data))
        IN  /\ reply'.report.daily_profit = profit
            /\ reply'.report.verdict =
                 (IF profit < 0 THEN "urgent"
                  ELSE IF profit < 10 THEN "caution"
                  ELSE IF profit > 100 THEN "strong"
                  ELSE "none")]_vars

\* the opportunity of graph d whose id is id
Opp(d, id) ==
  d.market_opportunities[CHOOSE i \in 1..Len(d.market_opportunities) :
                           d.market_opportunities[i].id = id]

HasProfit(o) == o.profit_potential # Undefined

\* a may be listed before b: a has a profit potential and b has none, or
\* a's is the greater, or they are equal (or both missing) and a was not
\* discovered earlier than b
RankedBefore(a, b) ==
  \/ HasProfit(a) /\ ~HasProfit(b)
  \/ /\ HasProfit(a) /\ HasProfit(b)
     /\ a.profit_potential > b.profit_potential
  \/ /\ HasProfit(a) = HasProfit(b)
     /\ HasProfit(a) => a.profit_potential = b.profit_potential
     /\ a.created_at >= b.created_at

\* C28: get_market_opportunities lists the opportunities by descending
\* profit potential, those without one last, equal (or both missing) ones
\* by descending discovery time; with a limit it lists the first limit
\* entries of that order.
C28_Ranking ==
  [][(last'.op = "get_market_opportunities" /\ last'.status = "ok")
     => LET r == reply'.report
            limit == reply'.args[2]
            all == {data.market_opportunities[i].id :
                      i \in 1..Len(data.market_opportunities)}
            listed == {r[i] : i \in 1..Len(r)}
        IN  /\ listed \subseteq all
            /\ Cardinality(listed) = Len(r)
            /\ Len(r) = (IF limit = Undefined \/ limit > Cardinality(all)
                         THEN Cardinality(all) ELSE limit)
            /\ \A i \in 1..Len(r), j \in 1..Len(r) :
                 i < j => RankedBefore(Opp(data, r[i]), Opp(data, r[j]))
            /\ \A x \in listed, y \in all \ listed :
                 RankedBefore(Opp(data, x), Opp(data, y))]_vars

\* the snapshots of graph d, whatever their order
Snapshots(d) == {d.business_states[i] : i \in 1..Len(d.business_states)}

\* C29: get_current_business_state reports the saved snapshot with the
\* greatest timestamp, or the initialization state when none was saved,
\* and never an error; a restart keeps the saved snapshots, so that the
\* report after a save, a restart and a reload is that of the snapshot
\* saved.
C29_LatestSnapshot ==
  [][/\ last'.op = "get_current_business_state"
          => /\ last'.status = "ok"
             /\ IF Snapshots(data) = {}
                THEN reply'.kind = "init"
                ELSE /\ reply'.kind = "state"
                     /\ \E st \in Snapshots(data) :
                          /\ st.id = reply'.id
                          /\ st.session_summary = reply'.session_summary
                          /\ \A other \in Snapshots(data) :
                               other.timestamp <= st.timestamp
     /\ last'.op = "start"
          => {st.id : st \in Snapshots(data')}
               = {st.id : st \in Snapshots(data)}]_vars

\* C30: a log_decision with a resolved outcome, made while a Decision is
\* pending, resolves a pending Decision and keeps its record (none is
\* added); and get_pending_decisions lists exactly the Decisions whose
\* outcome is pending.
C30_PendingResolved ==
  [][/\ (/\ last'.op = "log_decision"
         /\ last'.status = "ok"
         /\ reply'.outcome \in {"approved", "denied"}
         /\ \E i \in 1..Len(data.decisions) :
              data.decisions[i].outcome = "pending")
          => /\ Len(data'.decisions) = Len(data.decisions)
             /\ \E i \in 1..Len(data.decisions) :
                  /\ data.decisions[i].outcome = "pending"
                  /\ data'.decisions[i].outcome = reply'.outcome
     /\ (last'.op = "get_pending_decisions" /\ last'.status = "ok")
          => reply'.decisions
               = {i \in 1..Len(data'.decisions) :
                    data'.decisions[i].outcome = "pending"}]_vars

\* C31: every start of the server, one that loads a persisted image
\* included, runs with a fresh session id and start time, so that no
\* InteractionRecord logged by an earlier process belongs to the session
\* of the process just started.
C31_FreshSession ==
  [][(last'.op = "start" /\ IsStore(data'))
     => /\ data'.session_metadata.current_session_id = sessions'
        /\ data'.session_metadata.session_start = now'
        /\ CurrentTurns(data') = {}]_vars

\* C32: the kill threshold and the scale threshold are per-service
\* configuration: a service registered with thresholds of its own is
\* killed by an update exactly when its daily_profit is below its own kill
\* threshold, and an active one is scaled exactly when its daily_profit is
\* not below that and above its own scale threshold, whatever the defaults
\* -10 and 50 would say.
C32_PerServiceThresholds ==
  [][\A sid \in 1..MaxServices :
       (UpdateStep(sid) /\ Svc(data', sid).auto_scale)
       => LET before == Svc(data, sid).status
              after == Svc(data', sid).status
              profit == Profit(Svc(data', sid))
          IN  /\ (after = "killed" /\ before # "killed")
                   => profit < AskedKillThreshold
              /\ profit < AskedKillThreshold => after = "killed"
              /\ before = "active"
                   => (after = "scaling"
                         <=> /\ profit >= AskedKillThreshold
                             /\ profit > AskedScaleThreshold)]_vars

\* the approval limit of the safety controls, in dollars
ApprovalLimit == 500

\* C33: no Decision whose revenue impact exceeds 500 dollars has the
\* outcome auto_approved: above the limit a Decision waits for a human.
C33_HumanApproval ==
  IsStore(data) =>
    \A i \in 1..Len(data.decisions) :
      data.decisions[i].revenue_impact > ApprovalLimit
        => data.decisions[i].outcome # "auto_approved"

\* the blocker of graph d whose id is id
BlockerOf(d, id) ==
  d.blockers[CHOOSE i \in 1..Len(d.blockers) : d.blockers[i].id = id]

BlockerRank(st) ==
  CASE st = "identified" -> 1
    [] st = "investigating" -> 2
    [] st \in {"resolved", "escalated"} -> 3
    [] OTHER -> 0

\* C34: a Blocker is created with status identified; on every step its
\* status stays or moves forward along identified, investigating, then
\* resolved or escalated; and a resolved or escalated Blocker keeps its
\* status whatever is done, resolve_blocker included.
C34_BlockerLifecycle ==
  [][/\ \A id \in BlockerIdsOf(data') \ BlockerIdsOf(data) :
          BlockerOf(data', id).status = "identified"
     /\ \A id \in BlockerIdsOf(data) :
          /\ id \in BlockerIdsOf(data')
          /\ BlockerRank(BlockerOf(data', id).status)
               >= BlockerRank(BlockerOf(data, id).status)
          /\ BlockerOf(data, id).status \in {"resolved", "escalated"}
               => BlockerOf(data', id).status
                    = BlockerOf(data, id).status]_vars

\* resolve_blocker has just been answered for a Blocker that the image
\* written before it shows as resolved already
C34_Witness ==
  /\ \E id \in BlockerIdsOf(data) :
       /\ last = [op |-> "resolve_blocker", sid |-> id, status |-> "ok"]
       /\ BlockerOf(data, id).status = "resolved"
       /\ lastAutoSave = now
       /\ data.session_metadata.last_activity = now
  /\ sessions = 2
  /\ \E id \in BlockerIdsOf(data) : BlockerOf(data, id).status = "identified"

\* every record of sequence old is still in new, at its place and unchanged
KeptAsIs(old, new) ==
  /\ Len(new) >= Len(old)
  /\ SubSeq(new, 1, Len(old)) = old

\* a record without the fields named in S
Without(rec, S) == [f \in (DOMAIN rec) \ S |-> rec[f]]

\* every record of sequence old is still in new, whatever its place, and
\* equal to what it was but for the fields named in S
KeptBut(old, new, S) ==
  \A i \in 1..Len(old) :
    \E j \in 1..Len(new) :
      /\ new[j].id = old[i].id
      /\ Without(new[j], S) = Without(old[i], S)

\* the step of a running server removes no record, leaves Transactions,
\* BusinessSnapshots and InteractionRecords as they were created, and
\* writes to a stored record of another collection in the fields named
\* only: those of a Blocker in B, those of a service in V
AppendOnlyBut(B, V) ==
  (proc = "running" /\ proc' = "running" /\ IsStore(data))
  => /\ IsStore(data')
     /\ KeptAsIs(data.transactions, data'.transactions)
     /\ KeptAsIs(data.conversation_turns, data'.conversation_turns)
     /\ KeptBut(data.business_states, data'.business_states, {})
     /\ Len(data'.decisions) >= Len(data.decisions)
     /\ \A i \in 1..Len(data.decisions) :
          Without(data'.decisions[i], {"outcome"})
            = Without(data.decisions[i], {"outcome"})
     /\ KeptBut(data.market_opportunities, data'.market_opportunities,
                {"status"})
     /\ KeptBut(data.technical_discoveries, data'.technical_discoveries, {})
     /\ KeptBut(data.progress_milestones, data'.progress_milestones, {})
     /\ KeptBut(data.blockers, data'.blockers, B)
     /\ KeptBut(data.services, data'.services, V)

Dirty == disk # Stringify(data)

\* C37: a scheduler tick writes the graph only when the store is dirty,
\* a write that succeeds leaves the store clean, and a tick on a clean
\* store writes nothing and leaves the in-memory graph, last_activity
\* included, as it is.
C37_FlushOnlyWhenDirty ==
  [][TimerStep
     => /\ last'.op = "flush" => Dirty
        /\ (last'.op = "flush" /\ lastAutoSave' = now') => ~Dirty'
        /\ ~Dirty => (data' = data /\ disk' = disk)]_vars

WriteThroughOps ==
  {"register_service", "update_service_performance", "record_transaction",
   "log_decision", "record_market_opportunity", "save_business_state",
   "log_conversation_turn", "log_blocker", "resolve_blocker",
   "log_technical_discovery", "log_progress_milestone"}

\* C38: when a mutating operation returns and none of its writes failed,
\* the persisted image is the in-memory graph of that moment (the text that
\* JSON.stringify gives for it), whatever the image was before.
C38_WriteThrough ==
  [][(last'.op \in WriteThroughOps /\ last'.status = "ok")
     => disk' = Stringify(data')]_vars

\* a payment has just been recorded for a registered service, in two
\* writes, by a server whose first image could not be written; the image
\* shows the payment and the revenue recomputed from it
C38_Witness ==
  /\ last = [op |-> "record_transaction", sid |-> 1, status |-> "ok"]
  /\ lastAutoSave = now
  /\ now > data.session_metadata.session_start
  /\ disk.kind = "json"
  /\ Len(disk.doc.transactions) = 2
  /\ disk.doc.services[1].daily_revenue = 10
  /\ disk.doc.decisions # <<>>

\* the Transactions of the document doc that name the service sid
PaymentsOf(doc, sid) ==
  SelectSeq(doc.transactions, LAMBDA x : x.service_id = sid)

\* every service of doc that has a Transaction in doc carries the
\* daily_revenue recomputed when the newest of them was recorded
RevenueRecomputed(doc) ==
  \A i \in DOMAIN doc.services :
    LET mine == PaymentsOf(doc, doc.services[i].id)
    IN  mine # <<>> =>
          doc.services[i].daily_revenue
            = TodayRevenue(doc.transactions, doc.services[i].id,
                           mine[Len(mine)].timestamp)

\* doc holds one auxiliary Decision for every decision extracted from one
\* of its InteractionRecords
AuxiliariesPresent(doc) ==
  Len(SelectSeq(doc.decisions,
        LAMBDA x : x.decision_type = "conversation_decision"))
    = SumSeq([i \in DOMAIN doc.conversation_turns |->
                Len(doc.conversation_turns[i].extracted_entities
                      .decisions_made)])

\* every service of doc that the lifecycle engine killed or scaled has the
\* Decision of that step in doc
LifecycleDecided(doc) ==
  \A i \in DOMAIN doc.services :
    /\ doc.services[i].status = "killed" =>
         \E j \in DOMAIN doc.decisions :
           /\ doc.decisions[j].decision_type = "auto_kill_service"
           /\ doc.decisions[j].context = doc.services[i].id
    /\ doc.services[i].status = "scaling" =>
         \E j \in DOMAIN doc.decisions :
           /\ doc.decisions[j].decision_type = "auto_scale_service"
           /\ doc.decisions[j].context = doc.services[i].id

\* C39: the image on durable storage reflects only completely applied
\* operations: a Transaction in it has its service's daily_revenue
\* recomputed, an InteractionRecord in it has its auxiliary Decisions, and
\* a status killed or scaling in it has its lifecycle Decision.
C39_CompleteImages ==
  (disk.kind = "json" /\ IsStore(disk.doc))
    => /\ RevenueRecomputed(disk.doc)
       /\ AuxiliariesPresent(disk.doc)
       /\ LifecycleDecided(disk.doc)

\* the three counters of the QR service
QRCounters(q) == <<q.dailyRevenue, q.dailyGenerations, q.totalGenerations>>

\* the three counters of q after n more generated codes
QRCountersPlus(q, n) ==
  <<q.dailyRevenue + n * PRICE_PER_QR, q.dailyGenerations + n,
    q.totalGenerations + n>>

\* the number of items of a batch that ask for a code that is generated
Generated(items) == Len(SelectSeq(items, LAMBDA x : x = "ok"))

C40_DailyLimit == qr.dailyGenerations <= MAX_DAILY_GENERATIONS
====
